---- MODULE Spec2Model ----
(***************************************************************************)
(* A model of gumlog's segmented commit log (package log): the store, the  *)
(* memory-mapped index, the segment and the Log built from them, down to   *)
(* the bytes the store holds and the directory the files live in.          *)
(***************************************************************************)
EXTENDS Integers, Sequences, FiniteSets, TLC

(***************************************************************************)
(* Bounds of the model.                                                    *)
(***************************************************************************)
\* number of Log.Append calls in one behaviour
MaxAppends == 3
\* largest offset passed to Log.Read and Log.Truncate
MaxOffsetArg == 3
\* record values a client appends (byte strings)
Values == {<< >>, <<104, 105>>}
\* the Config.Segment a Log is made with, as <<MaxStoreBytes, MaxIndexBytes,
\* InitialOffset>> (0 = not set, NewLog puts the default in): the defaults, an
\* index cap of one and of two entries, one that is no multiple of the entry
\* width, a store cap that one or two records reach, the journal's initial
\* offset and a later one
Configs == {<<0, 0, 0>>, <<0, 12, 0>>, <<0, 24, 0>>, <<0, 13, 0>>, <<12, 0, 0>>,
            <<0, 0, 1>>, <<12, 24, 1>>, <<0, 12, 2>>}

(***************************************************************************)
(* Program constants.                                                      *)
(***************************************************************************)
offWidth == 4
posWidth == 8
entWidth == offWidth + posWidth
lenWidth == 8
DefaultMaxBytes == 1024
\* uint64 arithmetic wraps; the model keeps the wrap with a smaller modulus,
\* every offset and size of the model stays far below it
UintMod == 65536
MaxUint == UintMod - 1

USub(a, b) == (a - b + UintMod) % UintMod

\* int64(n) of an unsigned n: the upper half of the range is negative
Int64(n) == IF n >= UintMod \div 2 THEN n - UintMod ELSE n

\* uint32(n): the low half of the bits of n (uint64 is UintMod wide in the
\* model, uint32 Uint32Mod)
Uint32Mod == 256

Uint32(n) == n % Uint32Mod

Min(a, b) == IF a < b THEN a ELSE b

(***************************************************************************)
(* api.Record and its protobuf wire form (proto3: a field holding its zero *)
(* value is not written; field 1 = value (bytes), 2 = offset, 3 = term,    *)
(* 4 = type, all varints).                                                 *)
(***************************************************************************)
NewRecord(v) == [value |-> v, offset |-> 0, term |-> 0, type |-> 0]

EmptyRecord == NewRecord(<< >>)

NilRecord == [nil |-> TRUE]

RECURSIVE Varint(_)
Varint(n) == IF n < 128 THEN <<n>> ELSE <<128 + (n % 128)>> \o Varint(n \div 128)

VarintField(tag, n) == IF n = 0 THEN << >> ELSE <<tag>> \o Varint(n)

Marshal(r) ==
    (IF Len(r.value) = 0 THEN << >> ELSE <<10>> \o Varint(Len(r.value)) \o r.value)
    \o VarintField(16, r.offset) \o VarintField(24, r.term) \o VarintField(32, r.type)

\* <<value, index after the varint>>, or <<-1, 0>> when the bytes end inside it
RECURSIVE DecodeVarint(_, _)
DecodeVarint(b, i) ==
    IF i > Len(b) THEN <<-1, 0>>
    ELSE IF b[i] < 128 THEN <<b[i], i + 1>>
    ELSE LET r == DecodeVarint(b, i + 1)
         IN  IF r[1] = -1 THEN r ELSE <<(b[i] - 128) + 128 * r[1], r[2]>>

RECURSIVE UnmarshalFrom(_, _, _)
UnmarshalFrom(b, i, acc) ==
    IF i > Len(b) THEN [ok |-> TRUE, rec |-> acc]
    ELSE LET v == DecodeVarint(b, i + 1)
             bad == [ok |-> FALSE, rec |-> NilRecord]
         IN  IF v[1] = -1 THEN bad
             ELSE CASE b[i] = 10 ->
                         IF v[2] + v[1] - 1 > Len(b) THEN bad
                         ELSE UnmarshalFrom(b, v[2] + v[1],
                                  [acc EXCEPT !.value = SubSeq(b, v[2], v[2] + v[1] - 1)])
                    [] b[i] = 16 -> UnmarshalFrom(b, v[2], [acc EXCEPT !.offset = v[1]])
                    [] b[i] = 24 -> UnmarshalFrom(b, v[2], [acc EXCEPT !.term = v[1]])
                    [] b[i] = 32 -> UnmarshalFrom(b, v[2], [acc EXCEPT !.type = v[1]])
                    [] OTHER -> bad

Unmarshal(b) == UnmarshalFrom(b, 1, EmptyRecord)

\* binary.Write(buf, enc, uint64(n)) and enc.Uint64: 8 bytes, big endian
\* (the model's lengths are below 2^31, the four high bytes are zero)
PutUint64(n) == <<0, 0, 0, 0, (n \div 16777216) % 256, (n \div 65536) % 256,
                  (n \div 256) % 256, n % 256>>

Uint64(b) == ((b[5] * 256 + b[6]) * 256 + b[7]) * 256 + b[8]

\* enc.PutUint32 and enc.Uint32: 4 bytes, big endian
PutUint32(n) == <<(n \div 16777216) % 256, (n \div 65536) % 256, (n \div 256) % 256, n % 256>>

BeUint32(b) == ((b[1] * 256 + b[2]) * 256 + b[3]) * 256 + b[4]

\* the frame store.Append writes for a record: its length, then its bytes
Frame(rec) == PutUint64(Len(Marshal(rec))) \o Marshal(rec)

(***************************************************************************)
(* Files.  A segment's two files are kept together under its base offset:  *)
(* store = the bytes of <base>.store, ilen = the length of <base>.index in *)
(* bytes, ient = the 12-byte entries written into it, one after another.   *)
(* Bytes of the index file past the written entries are zero.  The mapping *)
(* is MAP_SHARED, so the index file's content is the mapping's content.    *)
(***************************************************************************)
EmptyFiles == [store |-> << >>, ilen |-> 0, ient |-> << >>]

\* the 12 bytes index.Write puts into a slot and what index.Read makes of them
PutEntry(off, pos) == PutUint32(off) \o PutUint64(pos)

EntryOf(b) == <<BeUint32(SubSeq(b, 1, offWidth)), Uint64(SubSeq(b, offWidth + 1, entWidth))>>

ZeroEntry == [i \in 1..entWidth |-> 0]

\* the bytes of slot n (0-based) of the mapping
SlotBytes(f, n) == IF n < Len(f.ient) THEN f.ient[n + 1] ELSE ZeroEntry

\* the entry in slot n (0-based) of the mapping
Slot(f, n) == EntryOf(SlotBytes(f, n))

\* os.Truncate / File.Truncate of the index file to n bytes
TruncateIndexFile(f, n) ==
    [f EXCEPT !.ilen = n, !.ient = SubSeq(f.ient, 1, Min(Len(f.ient), n \div entWidth))]

(***************************************************************************)
(* store.  size and buf are the fields of the struct; the bufio.Writer     *)
(* holds at most 4096 bytes before it flushes by itself, which the model's *)
(* sizes never reach.                                                       *)
(***************************************************************************)
newStore(s, f) == [s EXCEPT !.size = Len(f.store), !.buf = << >>]

\* Append without its 'w += lenWidth' (a faulty variant: the length prefix is
\* written but not counted)
StoreAppendUncounted(s, p) ==
    [seg |-> [s EXCEPT !.buf = s.buf \o PutUint64(Len(p)) \o p,
                       !.size = s.size + Len(p)],
     n   |-> Len(p),
     pos |-> s.size]

StoreAppend(s, p) ==
    [seg |-> [s EXCEPT !.buf = s.buf \o PutUint64(Len(p)) \o p,
                       !.size = s.size + Len(p) + lenWidth],
     n   |-> Len(p) + lenWidth,
     pos |-> s.size]

\* bufio.Writer.Flush: nothing to do on an empty buffer, else one write to the file
Flush(s, f) ==
    IF Len(s.buf) = 0 THEN [seg |-> s, f |-> f, err |-> "none"]
    ELSE IF s.closed THEN [seg |-> s, f |-> f, err |-> "ErrClosed"]
    ELSE [seg |-> [s EXCEPT !.buf = << >>],
          f   |-> [f EXCEPT !.store = f.store \o s.buf],
          err |-> "none"]

\* File.ReadAt(p, off) with len(p) = n: "EOF" when fewer than n bytes are there
FileReadAt(s, f, off, n) ==
    IF s.closed THEN [err |-> "ErrClosed", p |-> << >>]
    ELSE IF n = 0 THEN [err |-> "none", p |-> << >>]
    ELSE IF off + n > Len(f.store) THEN [err |-> "EOF", p |-> << >>]
    ELSE [err |-> "none", p |-> SubSeq(f.store, off + 1, off + n)]

StoreRead(s, f, pos) ==
    LET fl   == Flush(s, f)
        size == FileReadAt(fl.seg, fl.f, pos, lenWidth)
        b    == FileReadAt(fl.seg, fl.f, pos + lenWidth, Uint64(size.p))
    IN  IF fl.err # "none" THEN [seg |-> fl.seg, f |-> fl.f, err |-> fl.err, p |-> << >>]
        ELSE IF size.err # "none"
             THEN [seg |-> fl.seg, f |-> fl.f, err |-> size.err, p |-> << >>]
        ELSE [seg |-> fl.seg, f |-> fl.f, err |-> b.err, p |-> b.p]

\* store.ReadAt(p, off) with len(p) = n
StoreReadAt(s, f, off, n) ==
    LET fl == Flush(s, f)
        r  == FileReadAt(fl.seg, fl.f, off, n)
    IN  IF fl.err # "none" THEN [seg |-> fl.seg, f |-> fl.f, err |-> fl.err, p |-> << >>]
        ELSE [seg |-> fl.seg, f |-> fl.f, err |-> r.err, p |-> r.p]

StoreClose(s, f) ==
    LET fl == Flush(s, f)
    IN  IF fl.err # "none" THEN fl
        ELSE IF s.closed THEN [seg |-> fl.seg, f |-> fl.f, err |-> "ErrClosed"]
        ELSE fl

(***************************************************************************)
(* index.  isize is index.size, mlen is len(index.mmap).                   *)
(***************************************************************************)
newIndex(s, f, c) ==
    [seg |-> [s EXCEPT !.isize = f.ilen, !.mlen = c.MaxIndexBytes],
     f   |-> TruncateIndexFile(f, c.MaxIndexBytes)]

\* unmapped: the call reads the mapping after UnsafeUnmap released it
IndexRead(s, f, in) ==
    LET out  == IF in = -1 THEN USub(s.isize \div entWidth, 1) ELSE Uint32(in)
        pos  == out * entWidth
        none == [err |-> "EOF", out |-> 0, pos |-> 0, unmapped |-> FALSE]
    IN  IF s.isize = 0 THEN none
        ELSE IF s.isize < pos + entWidth THEN none
        ELSE [err |-> "none", out |-> Slot(f, out)[1], pos |-> Slot(f, out)[2],
              unmapped |-> s.closed]

\* Write with the room test off by one entry (a faulty variant: a full index
\* takes one more entry)
IndexWriteOverrun(s, f, off, pos) ==
    IF s.mlen < s.isize
    THEN [seg |-> s, f |-> f, err |-> "EOF", unmapped |-> FALSE]
    ELSE LET n   == s.isize \div entWidth
             pad == [i \in 1..n |-> SlotBytes(f, i - 1)]
         IN  [seg |-> [s EXCEPT !.isize = s.isize + entWidth],
              f   |-> IF s.closed THEN f
                      ELSE [f EXCEPT !.ient = pad \o <<PutEntry(off, pos)>>],
              err |-> "none",
              unmapped |-> s.closed]

IndexWrite(s, f, off, pos) ==
    IF s.mlen < s.isize + entWidth
    THEN [seg |-> s, f |-> f, err |-> "EOF", unmapped |-> FALSE]
    ELSE LET n   == s.isize \div entWidth
             pad == [i \in 1..n |-> SlotBytes(f, i - 1)]
         IN  [seg |-> [s EXCEPT !.isize = s.isize + entWidth],
              f   |-> IF s.closed THEN f
                      ELSE [f EXCEPT !.ient = pad \o <<PutEntry(off, pos)>>],
              err |-> "none",
              unmapped |-> s.closed]

\* Close without its Truncate(size) (a faulty variant: the file keeps the
\* padding newIndex gave it)
IndexCloseKeepsPadding(s, f) ==
    IF s.closed THEN [seg |-> s, f |-> f, err |-> "ENOMEM"]
    ELSE [seg |-> s, f |-> f, err |-> "none"]

\* Sync, file.Sync, UnsafeUnmap, Truncate(size), Close; msync of a released
\* mapping fails and nothing after it runs
IndexClose(s, f) ==
    IF s.closed THEN [seg |-> s, f |-> f, err |-> "ENOMEM"]
    ELSE [seg |-> s, f |-> TruncateIndexFile(f, s.isize), err |-> "none"]

(***************************************************************************)
(* segment.  closed: Close has run on it (files closed, mapping released). *)
(***************************************************************************)
\* fs is the directory (base offset -> files); O_CREATE makes missing files
newSegment(fs, baseOffset, c) ==
    LET f0  == IF baseOffset \in DOMAIN fs THEN fs[baseOffset] ELSE EmptyFiles
        s0  == [baseOffset |-> baseOffset, nextOffset |-> 0, size |-> 0, buf |-> << >>,
                isize |-> 0, mlen |-> 0, closed |-> FALSE]
        s1  == newStore(s0, f0)
        ix  == newIndex(s1, f0, c)
        lst == IndexRead(ix.seg, ix.f, -1)
    IN  [seg |-> [ix.seg EXCEPT !.nextOffset =
                     IF lst.err # "none" THEN baseOffset
                     ELSE (baseOffset + lst.out + 1) % UintMod],
         f   |-> ix.f]

\* segment.Append without its last step, the advance of nextOffset (a faulty
\* variant: the offsets Append hands out depend on that step)
SegmentAppendSameOffset(s, f, record) ==
    LET cur == s.nextOffset
        p   == Marshal([record EXCEPT !.offset = cur])
        st  == StoreAppend(s, p)
        iw  == IndexWrite(st.seg, f, USub(s.nextOffset, s.baseOffset), st.pos)
    IN  IF iw.err # "none"
        THEN [seg |-> iw.seg, f |-> iw.f, off |-> 0, err |-> iw.err, unmapped |-> FALSE]
        ELSE [seg |-> iw.seg, f |-> iw.f, off |-> cur, err |-> "none",
              unmapped |-> iw.unmapped]

\* unmapped: the index entry was written through a released mapping
SegmentAppend(s, f, record) ==
    LET cur == s.nextOffset
        p   == Marshal([record EXCEPT !.offset = cur])
        st  == StoreAppend(s, p)
        iw  == IndexWrite(st.seg, f, USub(s.nextOffset, s.baseOffset), st.pos)
    IN  IF iw.err # "none"
        THEN [seg |-> iw.seg, f |-> iw.f, off |-> 0, err |-> iw.err, unmapped |-> FALSE]
        ELSE [seg |-> [iw.seg EXCEPT !.nextOffset = (s.nextOffset + 1) % UintMod],
              f |-> iw.f, off |-> cur, err |-> "none", unmapped |-> iw.unmapped]

SegmentRead(s, f, off) ==
    LET ir == IndexRead(s, f, Int64(USub(off, s.baseOffset)))
        sr == StoreRead(s, f, ir.pos)
        um == Unmarshal(sr.p)
    IN  IF ir.err # "none"
        THEN [seg |-> s, f |-> f, err |-> ir.err, rec |-> NilRecord, unmapped |-> FALSE]
        ELSE IF sr.err # "none"
        THEN [seg |-> sr.seg, f |-> sr.f, err |-> sr.err, rec |-> NilRecord,
              unmapped |-> ir.unmapped]
        ELSE [seg |-> sr.seg, f |-> sr.f,
              err |-> IF um.ok THEN "none" ELSE "DecodeError",
              rec |-> um.rec, unmapped |-> ir.unmapped]

\* IsMaxed with the index compared by > (a faulty variant: a segment whose
\* index is exactly full would not count as maxed)
IsMaxedStrict(s, c) == s.size >= c.MaxStoreBytes \/ s.isize > c.MaxIndexBytes

IsMaxed(s, c) == s.size >= c.MaxStoreBytes \/ s.isize >= c.MaxIndexBytes

SegmentClose(s, f) ==
    LET ic == IndexClose(s, f)
        sc == StoreClose(ic.seg, ic.f)
    IN  IF ic.err # "none" THEN ic
        ELSE IF sc.err # "none" THEN sc
        ELSE [seg |-> [sc.seg EXCEPT !.closed = TRUE], f |-> sc.f, err |-> "none"]

\* the directory without the files of base offset b
RemoveFiles(fs, b) == [x \in DOMAIN fs \ {b} |-> fs[x]]

\* the directory with the files of base offset b set to f
PutFiles(fs, b, f) == [x \in DOMAIN fs \cup {b} |-> IF x = b THEN f ELSE fs[x]]

FilesOf(fs, s) == IF s.baseOffset \in DOMAIN fs THEN fs[s.baseOffset] ELSE EmptyFiles

\* Remove without the two os.Remove calls (a faulty variant: the segment is
\* closed and its files stay in the directory)
SegmentRemoveKeepsFiles(s, fs) ==
    LET c == SegmentClose(s, FilesOf(fs, s))
    IN  IF c.err # "none" THEN [seg |-> c.seg, fs |-> fs, err |-> c.err]
        ELSE [seg |-> c.seg, fs |-> PutFiles(fs, s.baseOffset, c.f), err |-> "none"]

SegmentRemove(s, fs) ==
    LET c == SegmentClose(s, FilesOf(fs, s))
    IN  IF c.err # "none" THEN [seg |-> c.seg, fs |-> fs, err |-> c.err]
        ELSE [seg |-> c.seg, fs |-> RemoveFiles(fs, s.baseOffset), err |-> "none"]

(***************************************************************************)
(* Log.                                                                    *)
(*   cfg        l.Config, after NewLog put the defaults in                 *)
(*   dirExists  l.Dir exists                                               *)
(*   disk       the files in l.Dir: base offset -> files                   *)
(*   segments   l.segments                                                 *)
(*   active     l.activeSegment: the last element of l.segments, or, when  *)
(*              detached, a segment that is no longer in the list          *)
(*   phase      "open": the Log is in use; "closed": Close or Remove has   *)
(*              run, the process goes on with NewLog at most; "crashed":   *)
(*              the process took a fault on a released mapping             *)
(*   ret        what the last operation returned                           *)
(*   nAppends   number of Append calls so far                              *)
(*   offs       the offsets the successful Append calls returned, in order *)
(*   acked      offset -> value of the successful appends with no          *)
(*              Truncate(k >= offset), Reset or Remove before or after     *)
(*              them (history tells which appends to record)               *)
(*   history    "fresh": no Truncate, Reset or Remove has run;             *)
(*              "trimmed": Truncate has run, each time with an argument    *)
(*              below InitialOffset, which is below every offset the Log   *)
(*              hands out; "truncated": a Truncate(k >= InitialOffset)     *)
(*              has run; "destroyed": a Reset or Remove has run            *)
(***************************************************************************)
VARIABLES cfg, dirExists, disk, segments, active, phase, ret, nAppends, offs, acked,
          history

logVars == <<cfg, dirExists, disk, segments, active, phase, ret, nAppends, offs, acked,
             history>>

(***************************************************************************)
(* The state of what is built on and under the Log.  A specification moves *)
(* the variables of its own part and leaves the others as they start.      *)
(*   raftLog    the entries raft has committed, in index order (their Data)*)
(*   nodes      the servers of a cluster: node -> its user Log, the number *)
(*              of committed entries its fsm has applied, what Apply       *)
(*              returned for each                                          *)
(*   acks       the (offset, value) pairs Produce has acknowledged         *)
(*   unit       a store, an index or a segment used by itself              *)
(*   unitFiles  the files of unit                                          *)
(*   unitLog    what was done to unit, in order                            *)
(*   stream     a ConsumeStream call: the offset it is at, what it sent    *)
(***************************************************************************)
VARIABLES raftLog, nodes, acks, unit, unitFiles, unitLog, stream

clusterVars == <<raftLog, nodes, acks>>

unitVars == <<unit, unitFiles, unitLog>>

vars == <<logVars, clusterVars, unitVars, stream>>

\* the parts that are not in use
NoCluster == raftLog = << >> /\ nodes = << >> /\ acks = << >>

NoUnit == unit = << >> /\ unitFiles = << >> /\ unitLog = << >>

NoStream == stream = << >>

\* no Truncate, Reset or Remove has run
clean == history = "fresh"

Config(st, ix, init) == [MaxStoreBytes |-> st, MaxIndexBytes |-> ix, InitialOffset |-> init]

\* NewLog's defaults
WithDefaults(c) ==
    [c EXCEPT !.MaxStoreBytes = IF c.MaxStoreBytes = 0 THEN DefaultMaxBytes ELSE @,
              !.MaxIndexBytes = IF c.MaxIndexBytes = 0 THEN DefaultMaxBytes ELSE @]

Attached == [detached |-> FALSE, seg |-> NilRecord]

Detached(s) == [detached |-> TRUE, seg |-> s]

Result(op, arg, err, off) == [op |-> op, arg |-> arg, err |-> err, off |-> off]

RECURSIVE SortedSeq(_)
SortedSeq(S) ==
    IF S = {} THEN << >>
    ELSE LET m == CHOOSE x \in S : \A y \in S : x <= y
         IN  <<m>> \o SortedSeq(S \ {m})

\* setup's baseOffsets: one number per file of the directory, sorted; every
\* segment has two files, so every base offset is there twice
BaseOffsets(fs) ==
    LET srt == SortedSeq(DOMAIN fs)
    IN  [i \in 1..(2 * Len(srt)) |-> srt[(i + 1) \div 2]]

\* Log.newSegment: append to the list, the new segment becomes the active one
LogNewSegment(segs, fs, exists, off, c) ==
    IF ~exists THEN [segments |-> segs, fs |-> fs, err |-> "ENOENT"]
    ELSE LET n == newSegment(fs, off, c)
         IN  [segments |-> Append(segs, n.seg), fs |-> PutFiles(fs, off, n.f), err |-> "none"]

\* setup's loop over baseOffsets, from index i (1-based), two steps at a time
RECURSIVE SetupLoop(_, _, _, _, _)
SetupLoop(bases, i, segs, fs, c) ==
    IF i > Len(bases) THEN [segments |-> segs, fs |-> fs, err |-> "none"]
    ELSE LET n == LogNewSegment(segs, fs, TRUE, bases[i], c)
         IN  SetupLoop(bases, i + 2, n.segments, n.fs, c)

setup(segs, fs, exists, c) ==
    IF ~exists THEN [segments |-> segs, fs |-> fs, err |-> "ENOENT"]
    ELSE LET l == SetupLoop(BaseOffsets(fs), 1, segs, fs, c)
         IN  IF Len(l.segments) = 0
             THEN LogNewSegment(l.segments, l.fs, TRUE, c.InitialOffset, c)
             ELSE l

\* the segment l.activeSegment points to
ActiveOf(segs, act) == IF act.detached THEN act.seg ELSE segs[Len(segs)]

\* l.segments after the active segment became s (the list holds it unless detached)
WithActive(segs, act, s) ==
    IF act.detached THEN segs ELSE [segs EXCEPT ![Len(segs)] = s]

\* Log.Append as a function of the Log's state: the new list, active pointer and
\* files, the offset and error returned; unmapped: the index entry went through
\* a released mapping.  AppendOwn: after activeSegment.Append returned r on the
\* active segment a
AppendOwn(segs, act, fs, a, r) ==
    [segments |-> WithActive(segs, act, r.seg),
     active   |-> IF act.detached THEN Detached(r.seg) ELSE act,
     fs       |-> IF a.closed THEN fs ELSE PutFiles(fs, a.baseOffset, r.f),
     off |-> r.off, err |-> r.err, unmapped |-> r.unmapped]

\* after l.newSegment(off + 1) returned n
AppendRolled(own, n) ==
    IF n.err # "none" THEN [own EXCEPT !.err = n.err]
    ELSE [own EXCEPT !.segments = n.segments, !.active = Attached, !.fs = n.fs]

\* the roll with a gap (a faulty variant: the new segment starts one offset
\* after the next offset of the segment that filled up)
AppendCheckMaxedGap(own, seg, exists, c) ==
    IF own.err # "none" THEN [own EXCEPT !.off = 0]
    ELSE IF ~IsMaxed(seg, c) THEN own
    ELSE AppendRolled(own, LogNewSegment(own.segments, own.fs, exists,
                                         (own.off + 2) % UintMod, c))

AppendCheckMaxed(own, seg, exists, c) ==
    IF own.err # "none" THEN [own EXCEPT !.off = 0]
    ELSE IF ~IsMaxed(seg, c) THEN own
    ELSE AppendRolled(own, LogNewSegment(own.segments, own.fs, exists,
                                         (own.off + 1) % UintMod, c))

AppendOn(segs, act, fs, exists, c, a, r) ==
    AppendCheckMaxed(AppendOwn(segs, act, fs, a, r), r.seg, exists, c)

AppendTo(segs, act, fs, exists, c, a, record) ==
    AppendOn(segs, act, fs, exists, c, a, SegmentAppend(a, FilesOf(fs, a), record))

Append_(segs, act, fs, exists, c, record) ==
    AppendTo(segs, act, fs, exists, c, ActiveOf(segs, act), record)

\* Read's test of a segment without the lower bound (a faulty variant: offsets
\* below a segment's base would be looked up in it)
ContainsBelow(s, off) == off < s.nextOffset

\* Read's test of a segment: off lies between its base and next offset
Contains(s, off) == s.baseOffset <= off /\ off < s.nextOffset

\* index in l.segments of the segment Read picks for off, 0 when there is none
RECURSIVE FindFrom(_, _, _)
FindFrom(segs, i, off) ==
    IF i > Len(segs) THEN 0
    ELSE IF Contains(segs[i], off) THEN i
    ELSE FindFrom(segs, i + 1, off)

Find(segs, off) == FindFrom(segs, 1, off)

\* Log.Read as a function of the state; at: the Offset the error carries
ReadIn(segs, fs, off) ==
    LET i == Find(segs, off)
    IN  IF i = 0 \/ segs[i].nextOffset <= off
        THEN [seg |-> NilRecord, f |-> EmptyFiles, err |-> "ErrOffsetOutOfRange",
              at |-> off, rec |-> NilRecord, unmapped |-> FALSE]
        ELSE SegmentRead(segs[i], FilesOf(fs, segs[i]), off)

LogRead(off) == ReadIn(segments, disk, off)

\* ErrOffsetOutOfRange.GRPCStatus: the status code a handler's error becomes
GRPCCode(err) ==
    IF err = "none" THEN "OK"
    ELSE IF err = "ErrOffsetOutOfRange" THEN "NotFound"
    ELSE IF err = "PermissionDenied" THEN "PermissionDenied"
    ELSE "Unknown"

\* grpcServer.Consume(req) with req.Offset = off
Consume(off) ==
    LET r == LogRead(off)
    IN  IF r.err # "none" THEN [code |-> GRPCCode(r.err), response |-> NilRecord]
        ELSE [code |-> "OK", response |-> [record |-> r.rec]]

\* indexing l.segments of an empty list: the call panics
Panic == -1

LowestOffset == IF Len(segments) = 0 THEN Panic ELSE segments[1].baseOffset

HighestOffset ==
    IF Len(segments) = 0 THEN Panic
    ELSE LET off == segments[Len(segments)].nextOffset
         IN  IF off = 0 THEN 0 ELSE off - 1

(***************************************************************************)
(* The state after NewLog(dir, c) on an existing, empty directory.         *)
(***************************************************************************)
Init ==
    \E k \in Configs :
        LET c == WithDefaults(Config(k[1], k[2], k[3]))
            s == setup(<< >>, << >>, TRUE, c)
        IN  /\ cfg = c
            /\ dirExists = TRUE
            /\ disk = s.fs
            /\ segments = s.segments
            /\ active = Attached
            /\ phase = "open"
            /\ ret = Result("NewLog", 0, s.err, 0)
            /\ nAppends = 0
            /\ offs = << >>
            /\ acked = << >>
            /\ history = "fresh"
            /\ NoCluster /\ NoUnit /\ NoStream

\* An access to a mapping that UnsafeUnmap has released: the process takes a
\* fault and dies, or the access lands in whatever is mapped there now
Faults(unmapped) == IF unmapped THEN {TRUE, FALSE} ELSE {FALSE}

Crash(op, arg) ==
    /\ phase' = "crashed"
    /\ ret' = Result(op, arg, "fault", 0)
    /\ UNCHANGED <<cfg, dirExists, disk, segments, active, offs, acked, history>>

(***************************************************************************)
(* Log.Append(record)                                                      *)
(***************************************************************************)
LogAppend(record) ==
    /\ UNCHANGED <<clusterVars, unitVars, stream>>
    /\ phase = "open"
    /\ nAppends < MaxAppends
    /\ nAppends' = nAppends + 1
    /\ LET r == Append_(segments, active, disk, dirExists, cfg, record)
       IN  \E fault \in Faults(r.unmapped) :
             IF fault THEN Crash("Append", 0)
             ELSE /\ segments' = r.segments
                  /\ active' = r.active
                  /\ disk' = r.fs
                  /\ ret' = Result("Append", 0, r.err, r.off)
                  /\ offs' = IF r.err = "none" THEN Append(offs, r.off) ELSE offs
                  /\ acked' = IF r.err = "none" /\ history \in {"fresh", "trimmed"}
                              THEN [o \in DOMAIN acked \cup {r.off} |->
                                       IF o = r.off THEN record.value ELSE acked[o]]
                              ELSE acked
                  /\ UNCHANGED <<cfg, dirExists, phase, history>>

(***************************************************************************)
(* Log.Read(off)                                                           *)
(***************************************************************************)
LogReadOp(off) ==
    /\ UNCHANGED <<clusterVars, unitVars, stream>>
    /\ phase = "open"
    /\ LET i == Find(segments, off)
           r == LogRead(off)
       IN  \E fault \in Faults(r.unmapped) :
             IF fault THEN Crash("Read", off)
             ELSE /\ ret' = Result("Read", off, r.err, 0)
                  /\ IF r.err = "ErrOffsetOutOfRange" \/ segments[i].closed
                     THEN UNCHANGED <<segments, disk>>
                     ELSE /\ segments' = [segments EXCEPT ![i] = r.seg]
                          /\ disk' = PutFiles(disk, segments[i].baseOffset, r.f)
                  /\ UNCHANGED <<cfg, dirExists, active, phase, offs, acked, history>>
    /\ UNCHANGED nAppends

(***************************************************************************)
(* Log.Close, Log.Remove, Log.Reset                                        *)
(***************************************************************************)
\* Close's loop from segment i: the first error ends it
RECURSIVE CloseLoop(_, _, _)
CloseLoop(segs, i, fs) ==
    IF i > Len(segs) THEN [segments |-> segs, fs |-> fs, err |-> "none"]
    ELSE LET c == SegmentClose(segs[i], FilesOf(fs, segs[i]))
         IN  IF c.err # "none" THEN [segments |-> segs, fs |-> fs, err |-> c.err]
             ELSE CloseLoop([segs EXCEPT ![i] = c.seg], i + 1,
                            PutFiles(fs, segs[i].baseOffset, c.f))

Close(segs, fs) == CloseLoop(segs, 1, fs)

\* Close, then os.RemoveAll(l.Dir): the directory goes with its files
Remove(segs, fs, exists) ==
    LET c == Close(segs, fs)
    IN  IF c.err # "none"
        THEN [segments |-> c.segments, fs |-> c.fs, exists |-> exists, err |-> c.err]
        ELSE [segments |-> c.segments, fs |-> << >>, exists |-> FALSE, err |-> "none"]

\* Remove, then setup on the same Log (l.segments is not emptied in between)
ResetSetup(r, c) ==
    IF r.err # "none" THEN r
    ELSE [exists |-> r.exists] @@ setup(r.segments, r.fs, r.exists, c)

Reset(segs, fs, exists, c) == ResetSetup(Remove(segs, fs, exists), c)

LogClose ==
    /\ UNCHANGED <<clusterVars, unitVars, stream>>
    /\ phase = "open"
    /\ LET c == Close(segments, disk)
       IN  /\ segments' = c.segments
           /\ disk' = c.fs
           /\ ret' = Result("Close", 0, c.err, 0)
    /\ phase' = "closed"
    /\ UNCHANGED <<cfg, dirExists, active, nAppends, offs, acked, history>>

LogRemove ==
    /\ UNCHANGED <<clusterVars, unitVars, stream>>
    /\ phase = "open"
    /\ LET r == Remove(segments, disk, dirExists)
       IN  /\ segments' = r.segments
           /\ disk' = r.fs
           /\ dirExists' = r.exists
           /\ ret' = Result("Remove", 0, r.err, 0)
    /\ phase' = "closed"
    /\ acked' = << >>
    /\ history' = "destroyed"
    /\ UNCHANGED <<cfg, active, nAppends, offs>>

LogReset ==
    /\ UNCHANGED <<clusterVars, unitVars, stream>>
    /\ phase = "open"
    /\ LET r == Reset(segments, disk, dirExists, cfg)
       IN  /\ segments' = r.segments
           /\ disk' = r.fs
           /\ dirExists' = r.exists
           /\ ret' = Result("Reset", 0, r.err, 0)
    /\ acked' = << >>
    /\ history' = "destroyed"
    /\ UNCHANGED <<cfg, active, phase, nAppends, offs>>

(***************************************************************************)
(* NewLog(l.Dir, l.Config) after the Log was closed: a new Log value over  *)
(* the same directory                                                      *)
(***************************************************************************)
NewLog ==
    /\ UNCHANGED <<clusterVars, unitVars, stream>>
    /\ phase = "closed"
    /\ LET c == WithDefaults(cfg)
           s == setup(<< >>, disk, dirExists, c)
       IN  /\ cfg' = c
           /\ ret' = Result("NewLog", 0, s.err, 0)
           /\ IF s.err # "none"
              THEN UNCHANGED <<segments, disk, active, phase>>
              ELSE /\ segments' = s.segments
                   /\ disk' = s.fs
                   /\ active' = Attached
                   /\ phase' = "open"
    /\ UNCHANGED <<dirExists, nAppends, offs, acked, history>>

(***************************************************************************)
(* Log.Truncate(lowest)                                                    *)
(***************************************************************************)
\* Truncate's test with the base offset in place of the highest offset (a
\* faulty variant: a segment would go with records above lowest in it)
DiscardByBase(s, lowest) == s.baseOffset <= lowest

\* Truncate's test with < (a faulty variant: a segment whose highest offset is
\* lowest itself would stay)
DiscardBelow(s, lowest) == USub(s.nextOffset, 1) < lowest

\* Truncate's test of a segment: its highest offset, next_offset - 1 in uint64
Discard(s, lowest) == USub(s.nextOffset, 1) <= lowest

\* Truncate's loop from segment i.  kept: the local slice; segs: l.segments
\* with the segments Remove has closed marked so; the first error ends it
RECURSIVE TruncateLoop(_, _, _, _, _)
TruncateLoop(segs, i, kept, fs, lowest) ==
    IF i > Len(segs) THEN [segments |-> segs, kept |-> kept, fs |-> fs, err |-> "none"]
    ELSE IF Discard(segs[i], lowest)
    THEN LET r == SegmentRemove(segs[i], fs)
         IN  IF r.err # "none"
             THEN [segments |-> segs, kept |-> kept, fs |-> fs, err |-> r.err]
             ELSE TruncateLoop([segs EXCEPT ![i] = r.seg], i + 1, kept, r.fs, lowest)
    ELSE TruncateLoop(segs, i + 1, Append(kept, segs[i]), fs, lowest)

Truncate(segs, fs, lowest) == TruncateLoop(segs, 1, << >>, fs, lowest)

LogTruncate(lowest) ==
    /\ UNCHANGED <<clusterVars, unitVars, stream>>
    /\ phase = "open"
    /\ LET t    == Truncate(segments, disk, lowest)
           n    == Len(segments)
           last == t.segments[n]
       IN  /\ disk' = t.fs
           /\ ret' = Result("Truncate", lowest, t.err, 0)
           /\ IF t.err # "none"
              THEN /\ segments' = t.segments
                   /\ active' = active
              ELSE /\ segments' = t.kept
                   /\ active' = IF ~active.detached /\ n > 0 /\ last.closed
                                   /\ (Len(t.kept) = 0 \/ t.kept[Len(t.kept)] # last)
                                THEN Detached(last)
                                ELSE active
    /\ acked' = [o \in {x \in DOMAIN acked : x > lowest} |-> acked[o]]
    /\ history' = IF history \in {"fresh", "trimmed"}
                  THEN IF lowest < cfg.InitialOffset THEN "trimmed" ELSE "truncated"
                  ELSE history
    /\ UNCHANGED <<cfg, dirExists, phase, nAppends, offs>>

(***************************************************************************)
(* Log.Reader(), drained with io.ReadAll                                   *)
(***************************************************************************)
\* originReader over segment i: ReadAt flushes the store, then reads the file
RECURSIVE ReaderLoop(_, _, _, _)
ReaderLoop(segs, i, fs, data) ==
    IF i > Len(segs) THEN [segments |-> segs, fs |-> fs, data |-> data, err |-> "none"]
    ELSE LET f  == FilesOf(fs, segs[i])
             fl == Flush(segs[i], f)
         IN  IF fl.err # "none" \/ segs[i].closed
             THEN [segments |-> segs, fs |-> fs, data |-> data, err |-> "ErrClosed"]
             ELSE ReaderLoop([segs EXCEPT ![i] = fl.seg], i + 1,
                             PutFiles(fs, segs[i].baseOffset, fl.f), data \o fl.f.store)

Reader(segs, fs) == ReaderLoop(segs, 1, fs, << >>)

LogReader ==
    /\ UNCHANGED <<clusterVars, unitVars, stream>>
    /\ phase = "open"
    /\ LET r == Reader(segments, disk)
       IN  /\ segments' = r.segments
           /\ disk' = r.fs
           /\ ret' = Result("Reader", 0, r.err, 0)
    /\ UNCHANGED <<cfg, dirExists, active, phase, nAppends, offs, acked, history>>

(***************************************************************************)
(* fsm.Restore(r) on the user Log, r drained to the bytes b.  A Log is     *)
(* passed as a record L of its segments, active pointer, files (fs),       *)
(* directory (exists) and Config (c).                                      *)
(***************************************************************************)
LogOf(segs, act, fs, exists, c) ==
    [segments |-> segs, active |-> act, fs |-> fs, exists |-> exists, c |-> c]

RestoreDone(L, err, unmapped) == [log |-> L, err |-> err, unmapped |-> unmapped]

RECURSIVE RestoreLoop(_, _, _, _)

\* after f.log.Append(record) returned a
RestoreAppended(L, rest, unmapped, a) ==
    IF a.err # "none"
    THEN RestoreDone([L EXCEPT !.segments = a.segments, !.active = a.active,
                               !.fs = a.fs], a.err, unmapped \/ a.unmapped)
    ELSE RestoreLoop([L EXCEPT !.segments = a.segments, !.active = a.active,
                               !.fs = a.fs], rest, FALSE, unmapped \/ a.unmapped)

RestoreAppend(L, rest, unmapped, rec) ==
    RestoreAppended(L, rest, unmapped,
                    Append_(L.segments, L.active, L.fs, L.exists, L.c, rec))

\* after f.log.Reset() returned r, with InitialOffset set to the record's offset
RestoreAfterReset(L, rest, unmapped, rec, r) ==
    IF r.err # "none"
    THEN RestoreDone([L EXCEPT !.segments = r.segments, !.fs = r.fs,
                               !.exists = r.exists], r.err, unmapped)
    ELSE RestoreAppend([L EXCEPT !.segments = r.segments, !.fs = r.fs,
                                 !.exists = r.exists, !.active = Attached],
                       rest, unmapped, rec)

RestoreFirst(L, rest, unmapped, rec) ==
    RestoreAfterReset(L, rest, unmapped, rec, Reset(L.segments, L.fs, L.exists, L.c))

\* after proto.Unmarshal of the frame's bytes gave u
RestoreRecord(L, rest, first, unmapped, u) ==
    IF ~u.ok THEN RestoreDone(L, "DecodeError", unmapped)
    ELSE IF first
    THEN RestoreFirst([L EXCEPT !.c.InitialOffset = u.rec.offset], rest, unmapped, u.rec)
    ELSE RestoreAppend(L, rest, unmapped, u.rec)

\* after the length size was read: io.CopyN of size bytes
RestoreFrame(L, b, first, unmapped, size) ==
    IF Len(b) < lenWidth + size THEN RestoreDone(L, "EOF", unmapped)
    ELSE RestoreRecord(L, SubSeq(b, lenWidth + size + 1, Len(b)), first, unmapped,
                       Unmarshal(SubSeq(b, lenWidth + 1, lenWidth + size)))

\* the loop of Restore over the bytes left; first: i = 0
RestoreLoop(L, b, first, unmapped) ==
    IF Len(b) = 0 THEN RestoreDone(L, "none", unmapped)
    ELSE IF Len(b) < lenWidth THEN RestoreDone(L, "ErrUnexpectedEOF", unmapped)
    ELSE RestoreFrame(L, b, first, unmapped, Uint64(SubSeq(b, 1, lenWidth)))

Restore(L, b) == RestoreLoop(L, b, TRUE, FALSE)

\* the snapshots Restore is given: of no record, of one record at offset 0, of
\* two records at the offsets 1 and 2
Snapshots ==
    {<< >>,
     Frame(NewRecord(<<104, 105>>)),
     Frame([NewRecord(<< >>) EXCEPT !.offset = 1])
        \o Frame([NewRecord(<<104, 105>>) EXCEPT !.offset = 2])}

FsmRestore(b) ==
    /\ UNCHANGED <<clusterVars, unitVars, stream>>
    /\ phase = "open"
    /\ LET r == Restore(LogOf(segments, active, disk, dirExists, cfg), b)
       IN  \E fault \in Faults(r.unmapped) :
             IF fault THEN Crash("Restore", b) /\ UNCHANGED nAppends
             ELSE /\ segments' = r.log.segments
                  /\ active' = r.log.active
                  /\ disk' = r.log.fs
                  /\ dirExists' = r.log.exists
                  /\ cfg' = r.log.c
                  /\ ret' = Result("Restore", b, r.err, 0)
                  /\ acked' = IF Len(b) = 0 THEN acked ELSE << >>
                  /\ history' = IF Len(b) = 0 THEN history ELSE "destroyed"
                  /\ UNCHANGED <<phase, nAppends, offs>>

Next ==
    \/ \E v \in Values : LogAppend(NewRecord(v))
    \/ \E off \in 0..MaxOffsetArg : LogReadOp(off)
    \/ \E k \in (0..MaxOffsetArg) \cup {MaxUint} : LogTruncate(k)
    \/ LogClose
    \/ NewLog
    \/ LogRemove
    \/ LogReset
    \/ LogReader

Spec == Init /\ [][Next]_vars

\* the user Log under the fsm: Apply appends, Snapshot drains Reader(), Restore
\* rebuilds; DistributedLog.Read reads
FsmNext ==
    \/ \E v \in Values : LogAppend(NewRecord(v))
    \/ \E off \in 0..MaxOffsetArg : LogReadOp(off)
    \/ LogReader
    \/ \E b \in Snapshots : FsmRestore(b)

FsmSpec == Init /\ [][FsmNext]_vars

TypeOK ==
    /\ phase \in {"open", "closed", "crashed"}
    /\ history \in {"fresh", "trimmed", "truncated", "destroyed"}
    /\ nAppends \in 0..MaxAppends
    /\ Len(offs) <= nAppends

(***************************************************************************)
(* What a client can observe of a state.                                   *)
(***************************************************************************)
\* the offsets the properties probe Read with
Probes == (0..(MaxOffsetArg + MaxAppends)) \cup {MaxUint}

\* no segment of the list holds a record
LogEmpty == \A i \in 1..Len(segments) : segments[i].nextOffset = segments[i].baseOffset

\* every Append call so far returned without error
AllAppended == Len(offs) = nAppends

\* the frames of the records Read returns for the offsets o..hi, in order
RECURSIVE FramesOf(_, _, _, _)
FramesOf(segs, fs, o, hi) ==
    IF o > hi THEN << >>
    ELSE LET r == ReadIn(segs, fs, o)
         IN  (IF r.err = "none" THEN Frame(r.rec) ELSE << >>)
             \o FramesOf(segs, fs, o + 1, hi)

\* the records of the frames of a byte stream, in order (what Restore decodes)
RECURSIVE Records(_)
Records(b) ==
    IF Len(b) < lenWidth \/ Len(b) < lenWidth + Uint64(SubSeq(b, 1, lenWidth))
    THEN << >>
    ELSE LET size == Uint64(SubSeq(b, 1, lenWidth))
         IN  <<Unmarshal(SubSeq(b, lenWidth + 1, lenWidth + size)).rec>>
             \o Records(SubSeq(b, lenWidth + size + 1, Len(b)))

\* NewLog(dir, c) on an empty directory, as a Log record
FreshLog(c) ==
    LET s == setup(<< >>, << >>, TRUE, c)
    IN  LogOf(s.segments, Attached, s.fs, TRUE, c)

\* what snapshot.Persist writes for the Log L: Reader() drained
Persist(L) == Reader(L.segments, L.fs)

(***************************************************************************)
(* Log.Append and Log.Read on a Log passed as a record (LogOf)             *)
(***************************************************************************)
AppendLog(L, record) ==
    LET a == Append_(L.segments, L.active, L.fs, L.exists, L.c, record)
    IN  [log |-> [L EXCEPT !.segments = a.segments, !.active = a.active, !.fs = a.fs],
         off |-> a.off, err |-> a.err]

\* Read flushes the store of the segment it reads from
ReadLog(L, off) ==
    LET i == Find(L.segments, off)
        r == ReadIn(L.segments, L.fs, off)
    IN  [log |-> IF r.err = "ErrOffsetOutOfRange" \/ L.segments[i].closed THEN L
                 ELSE [L EXCEPT !.segments[i] = r.seg,
                                !.fs = PutFiles(L.fs, L.segments[i].baseOffset, r.f)],
         rec |-> r.rec, err |-> r.err]

\* the log variables of a specification that runs no operation on them
IdleLog ==
    LET c == WithDefaults(Config(0, 0, 0))
        s == setup(<< >>, << >>, TRUE, c)
    IN  /\ cfg = c
        /\ dirExists = TRUE
        /\ disk = s.fs
        /\ segments = s.segments
        /\ active = Attached
        /\ phase = "open"
        /\ ret = Result("NewLog", 0, s.err, 0)
        /\ nAppends = 0
        /\ offs = << >>
        /\ acked = << >>
        /\ history = "fresh"

(***************************************************************************)
(* DistributedLog and its fsm.  raftLog: the entries raft has committed,   *)
(* in index order; nodes[i]: replica i's user Log, the number of entries   *)
(* its fsm has applied and what Apply returned for each; acks: what        *)
(* DistributedLog.apply returned to its callers on the leader.  raft is    *)
(* taken by its contract: every replica's fsm is handed the committed      *)
(* entries in index order, the future of raft.Apply carries the leader's   *)
(* fsm response.                                                           *)
(***************************************************************************)
MaxEntries == 3
Replicas == 1..2
Leader == 1

AppendRequestType == 0
RequestTypes == {AppendRequestType, 1}

\* proto.Marshal of api.ProduceRequest{Record: r}: field 1, length-delimited
MarshalRequest(r) == <<10>> \o Varint(Len(Marshal(r))) \o Marshal(r)

UnmarshalRequest(b) ==
    IF Len(b) = 0 THEN [ok |-> TRUE, rec |-> NilRecord]
    ELSE IF b[1] # 10 THEN [ok |-> FALSE, rec |-> NilRecord]
    ELSE LET v == DecodeVarint(b, 2)
         IN  IF v[1] = -1 \/ v[2] + v[1] - 1 # Len(b)
             THEN [ok |-> FALSE, rec |-> NilRecord]
             ELSE Unmarshal(SubSeq(b, v[2], Len(b)))

\* what fsm.Apply returns: a *ProduceResponse, an error, or nil
Response(off) == [kind |-> "response", offset |-> off, err |-> "none"]
ErrorValue(err) == [kind |-> "error", offset |-> 0, err |-> err]
Nil == [kind |-> "nil", offset |-> 0, err |-> "none"]

\* after f.log.Append(req.Record) returned a
ApplyAppended(a) ==
    [log |-> a.log, res |-> IF a.err # "none" THEN ErrorValue(a.err) ELSE Response(a.off)]

ApplyRequest(L, u) ==
    IF ~u.ok THEN [log |-> L, res |-> ErrorValue("DecodeError")]
    ELSE ApplyAppended(AppendLog(L, u.rec))

applyAppend(L, b) == ApplyRequest(L, UnmarshalRequest(b))

\* fsm.Apply(record) with record.Data = buf
Apply(L, buf) ==
    IF buf[1] = AppendRequestType THEN applyAppend(L, SubSeq(buf, 2, Len(buf)))
    ELSE [log |-> L, res |-> Nil]

\* what DistributedLog.apply returns for the fsm response res: (res, err)
ApplyReturn(res) ==
    IF res.kind = "error" THEN [res |-> Nil, err |-> res.err]
    ELSE [res |-> res, err |-> "none"]

RaftInit ==
    /\ IdleLog /\ NoUnit /\ NoStream
    /\ raftLog = << >>
    /\ acks = << >>
    /\ \E k \in Configs :
         nodes = [i \in Replicas |->
                    [log |-> FreshLog(WithDefaults(Config(k[1], k[2], k[3]))),
                     applied |-> 0, results |-> << >>]]

\* DistributedLog.apply(reqType, &ProduceRequest{Record: record}) up to the
\* commit of its entry
Commit(reqType, record) ==
    /\ Len(raftLog) < MaxEntries
    /\ raftLog' = Append(raftLog, <<reqType>> \o MarshalRequest(record))
    /\ UNCHANGED <<logVars, unitVars, stream, nodes, acks>>

\* replica i's fsm is handed buf; touched: the user Log is not what it was
ApplyEntry(i, buf) ==
    LET r == Apply(nodes[i].log, buf)
    IN  /\ nodes' = [nodes EXCEPT ![i] =
                        [log |-> r.log, applied |-> @.applied + 1,
                         results |-> Append(@.results,
                                            [touched |-> r.log # nodes[i].log] @@ r.res)]]
        /\ acks' = IF i = Leader THEN Append(acks, ApplyReturn(r.res)) ELSE acks
        /\ UNCHANGED <<logVars, unitVars, stream, raftLog>>

\* a replica that is handed the newest committed entry instead of its next one
\* (a faulty variant: entries are skipped or applied twice)
FsmApplyNewest(i) ==
    /\ nodes[i].applied < Len(raftLog)
    /\ ApplyEntry(i, raftLog[Len(raftLog)])

\* raft hands replica i its next committed entry
FsmApply(i) ==
    /\ nodes[i].applied < Len(raftLog)
    /\ ApplyEntry(i, raftLog[nodes[i].applied + 1])

RaftNext ==
    \/ \E t \in RequestTypes, v \in Values : Commit(t, NewRecord(v))
    \/ \E i \in Replicas : FsmApply(i)

RaftSpec == RaftInit /\ [][RaftNext]_vars

(***************************************************************************)
(* The cluster agent.New builds: every agent has a Log (log.Config{}), a   *)
(* gRPC server over it and a Replicator; the membership calls              *)
(* Replicator.Join for every other member, which starts replicate(addr).   *)
(* nodes[i].log: agent i's Log; nodes[i].from[j]: the offset the           *)
(* ConsumeStream that i's replicator opened on j asks for next; acks: the  *)
(* value of each record a client's Produce on agent 0 was answered for,    *)
(* under the offset of the answer.                                         *)
(***************************************************************************)
MaxRecords == 2
MaxProduce == 2
Agents == 0..2
Followers == Agents \ {0}

\* the records agent i's Log holds (the Logs are only appended to)
Held(i) == nodes[i].log.segments[Len(nodes[i].log.segments)].nextOffset

AgentInit ==
    /\ IdleLog /\ NoUnit /\ NoStream
    /\ raftLog = << >>
    /\ acks = << >>
    /\ nodes = [i \in Agents |->
                  [log |-> FreshLog(WithDefaults(Config(0, 0, 0))),
                   from |-> [j \in Agents \ {i} |-> 0]]]

\* grpcServer.Produce on agent i: what it answers and the Log after it
Produce(i, record) == AppendLog(nodes[i].log, record)

\* a client's Produce(&Record{Value: v}) on agent 0
ClientProduce(v) ==
    /\ Held(0) < MaxRecords
    /\ Cardinality(DOMAIN acks) < MaxProduce
    /\ LET p == Produce(0, NewRecord(v))
       IN  /\ nodes' = [nodes EXCEPT ![0].log = p.log]
           /\ acks' = IF p.err # "none" THEN acks
                      ELSE [o \in DOMAIN acks \cup {p.off} |->
                               IF o = p.off THEN v ELSE acks[o]]
    /\ UNCHANGED <<logVars, unitVars, stream, raftLog>>

\* a client's Consume(off) on agent i (Read flushes the store it reads)
ClientConsume(i, off) ==
    /\ nodes' = [nodes EXCEPT ![i].log = ReadLog(@, off).log]
    /\ UNCHANGED <<logVars, unitVars, stream, raftLog, acks>>

\* one round of replicate(addr of j) on agent i: ConsumeStream on j sends the
\* record at the stream's offset (r), the replicator produces it to its own
\* server (p); an offset out of range sends nothing
Replicate(i, j) ==
    /\ Held(i) < MaxRecords
    /\ \E r \in {ReadLog(nodes[j].log, nodes[i].from[j])} :
         /\ r.err = "none"
         /\ \E p \in {AppendLog(nodes[i].log, r.rec)} :
              /\ p.err = "none"
              /\ nodes' = [nodes EXCEPT ![j].log = r.log,
                                        ![i] = [log |-> p.log,
                                                from |-> [@.from EXCEPT ![j] = @ + 1]]]
    /\ UNCHANGED <<logVars, unitVars, stream, raftLog, acks>>

AgentNext ==
    \/ \E v \in Values : ClientProduce(v)
    \/ \E i \in Agents, off \in 0..(MaxRecords - 1) : ClientConsume(i, off)
    \/ \E i \in Agents : \E j \in Agents \ {i} : Replicate(i, j)

AgentSpec == AgentInit /\ [][AgentNext]_vars

(***************************************************************************)
(* An index by itself (TestIndex).  unit: the index (the index fields of   *)
(* the segment record); unitFiles: its file; unitLog: the Config, whether  *)
(* the index is open, closed or lost with its process (stopped), the pairs *)
(* written with success, in order, the times the file was opened again,    *)
(* whether the process ever stopped without Close, and the last call's     *)
(* result.                                                                 *)
(***************************************************************************)
MaxWrites == 3
MaxReopen == 2
IndexCaps == {12, 24, 36, 1024}
WriteOffs == {0, 1}
WritePoss == {0, 300}

NoIndex == [baseOffset |-> 0, nextOffset |-> 0, size |-> 0, buf |-> << >>,
            isize |-> 0, mlen |-> 0, closed |-> FALSE]

IndexInit ==
    /\ IdleLog /\ NoCluster /\ NoStream
    /\ \E m \in IndexCaps :
         LET ix == newIndex(NoIndex, EmptyFiles, Config(0, m, 0))
         IN  /\ unit = ix.seg
             /\ unitFiles = ix.f
             /\ unitLog = [c |-> Config(0, m, 0), phase |-> "open", written |-> << >>,
                           reopened |-> 0, stopped |-> FALSE,
                           ret |-> [op |-> "newIndex", arg |-> 0, err |-> "none",
                                    out |-> 0, pos |-> 0]]

IxWrite(off, pos) ==
    /\ unitLog.phase = "open"
    /\ Len(unitLog.written) < MaxWrites
    /\ LET w == IndexWrite(unit, unitFiles, off, pos)
       IN  /\ unit' = w.seg
           /\ unitFiles' = w.f
           /\ unitLog' = [unitLog EXCEPT
                 !.written = IF w.err = "none" THEN Append(@, <<off, pos>>) ELSE @,
                 !.ret = [op |-> "Write", arg |-> off, err |-> w.err, out |-> 0, pos |-> 0]]
    /\ UNCHANGED <<logVars, clusterVars, stream>>

IxRead(in) ==
    /\ unitLog.phase = "open"
    /\ LET r == IndexRead(unit, unitFiles, in)
       IN  unitLog' = [unitLog EXCEPT
              !.ret = [op |-> "Read", arg |-> in, err |-> r.err, out |-> r.out, pos |-> r.pos]]
    /\ UNCHANGED <<logVars, clusterVars, stream, unit, unitFiles>>

IxClose ==
    /\ unitLog.phase = "open"
    /\ LET c == IndexClose(unit, unitFiles)
       IN  /\ unit' = [c.seg EXCEPT !.closed = TRUE]
           /\ unitFiles' = c.f
           /\ unitLog' = [unitLog EXCEPT
                 !.phase = "closed",
                 !.ret = [op |-> "Close", arg |-> 0, err |-> c.err, out |-> 0, pos |-> 0]]
    /\ UNCHANGED <<logVars, clusterVars, stream>>

\* the process stops with the index open: Close never runs, the file keeps the
\* length newIndex gave it and what was written through the shared mapping
IxStop ==
    /\ unitLog.phase = "open"
    /\ unit' = [unit EXCEPT !.closed = TRUE]
    /\ unitLog' = [unitLog EXCEPT
          !.phase = "stopped", !.stopped = TRUE,
          !.ret = [op |-> "stop", arg |-> 0, err |-> "none", out |-> 0, pos |-> 0]]
    /\ UNCHANGED <<logVars, clusterVars, stream, unitFiles>>

\* os.OpenFile of the same file and newIndex(f, c) with the same Config
IxOpen ==
    /\ unitLog.phase \in {"closed", "stopped"}
    /\ unitLog.reopened < MaxReopen
    /\ LET ix == newIndex(NoIndex, unitFiles, unitLog.c)
       IN  /\ unit' = ix.seg
           /\ unitFiles' = ix.f
           /\ unitLog' = [unitLog EXCEPT
                 !.phase = "open", !.reopened = @ + 1,
                 !.ret = [op |-> "newIndex", arg |-> 0, err |-> "none", out |-> 0, pos |-> 0]]
    /\ UNCHANGED <<logVars, clusterVars, stream>>

IndexNext ==
    \/ \E off \in WriteOffs, pos \in WritePoss : IxWrite(off, pos)
    \/ \E in \in -1..MaxWrites : IxRead(in)
    \/ IxClose
    \/ IxStop
    \/ IxOpen

IndexSpec == IndexInit /\ [][IndexNext]_vars

(***************************************************************************)
(* A segment by itself (TestSegment).  unit: the segment; unitFiles: its   *)
(* two files; unitLog: the Config, the phase (open, closed, stopped), the  *)
(* Append calls made so far with their results (tries), the number of      *)
(* index entries written, the times the segment was opened again and what  *)
(* the last call was.                                                       *)
(***************************************************************************)
MaxTries == 4
SegmentBases == {0, 16}
SegmentCaps == {entWidth, 2 * entWidth, 3 * entWidth}

SegmentStoreCaps == {entWidth, DefaultMaxBytes}

SegmentInit ==
    /\ IdleLog /\ NoCluster /\ NoStream
    /\ \E b \in SegmentBases, m \in SegmentCaps, st \in SegmentStoreCaps :
         LET n == newSegment(<< >>, b, Config(st, m, 0))
         IN  /\ unit = n.seg
             /\ unitFiles = n.f
             /\ unitLog = [c |-> Config(st, m, 0), phase |-> "open",
                           tries |-> << >>, entries |-> 0, reopened |-> 0,
                           ret |-> [op |-> "newSegment", after |-> "none"]]

SgAppend(v) ==
    /\ unitLog.phase = "open"
    /\ Len(unitLog.tries) < MaxTries
    /\ LET a == SegmentAppend(unit, unitFiles, NewRecord(v))
       IN  /\ unit' = a.seg
           /\ unitFiles' = a.f
           /\ unitLog' = [unitLog EXCEPT
                 !.tries = Append(@, [value |-> v, off |-> a.off, err |-> a.err]),
                 !.entries = IF a.err = "none" THEN @ + 1 ELSE @,
                 !.ret = [op |-> "Append", after |-> "none"]]
    /\ UNCHANGED <<logVars, clusterVars, stream>>

SgRead(off) ==
    /\ unitLog.phase = "open"
    /\ LET r == SegmentRead(unit, unitFiles, off)
       IN  /\ unit' = r.seg
           /\ unitFiles' = r.f
           /\ unitLog' = [unitLog EXCEPT !.ret = [op |-> "Read", after |-> "none"]]
    /\ UNCHANGED <<logVars, clusterVars, stream>>

SgClose ==
    /\ unitLog.phase = "open"
    /\ LET c == SegmentClose(unit, unitFiles)
       IN  /\ unit' = [c.seg EXCEPT !.closed = TRUE]
           /\ unitFiles' = c.f
           /\ unitLog' = [unitLog EXCEPT !.phase = "closed",
                                         !.ret = [op |-> "Close", after |-> "none"]]
    /\ UNCHANGED <<logVars, clusterVars, stream>>

\* the process stops with the segment open: what the store's buffer holds is
\* lost, the index file stays as long as newIndex made it
SgStop ==
    /\ unitLog.phase = "open"
    /\ unit' = [unit EXCEPT !.closed = TRUE, !.buf = << >>]
    /\ unitLog' = [unitLog EXCEPT !.phase = "stopped",
                                  !.ret = [op |-> "stop", after |-> "none"]]
    /\ UNCHANGED <<logVars, clusterVars, stream, unitFiles>>

\* newSegment(dir, baseOffset, c) over the files the segment left
SgOpen ==
    /\ unitLog.phase \in {"closed", "stopped"}
    /\ unitLog.reopened < MaxReopen
    /\ LET n == newSegment(PutFiles(<< >>, unit.baseOffset, unitFiles),
                           unit.baseOffset, unitLog.c)
       IN  /\ unit' = n.seg
           /\ unitFiles' = n.f
           /\ unitLog' = [unitLog EXCEPT
                 !.phase = "open", !.reopened = @ + 1,
                 !.ret = [op |-> "newSegment", after |-> unitLog.phase]]
    /\ UNCHANGED <<logVars, clusterVars, stream>>

SegmentNext ==
    \/ \E v \in Values : SgAppend(v)
    \/ \E off \in {0, 1, 16, 17, 18} : SgRead(off)
    \/ SgClose
    \/ SgStop
    \/ SgOpen

SegmentSpec == SegmentInit /\ [][SegmentNext]_vars

(***************************************************************************)
(* A store by itself (TestStoreAppendRead).  unit: the store (the store    *)
(* fields of the segment record); unitFiles: its file; unitLog: whether it *)
(* is open, the total length of the frames appended, the times the file    *)
(* was opened again, and the last call with its arguments, its results and *)
(* the size before it.                                                     *)
(***************************************************************************)
MaxFrames == 3
StorePositions == {0, lenWidth, lenWidth + 2, 2 * lenWidth}

StoreRet(op, p, n, pos, err, before) ==
    [op |-> op, p |-> p, n |-> n, pos |-> pos, err |-> err, before |-> before]

StoreInit ==
    /\ IdleLog /\ NoCluster /\ NoStream
    /\ unit = newStore(NoIndex, EmptyFiles)
    /\ unitFiles = EmptyFiles
    /\ unitLog = [phase |-> "open", frames |-> 0, total |-> 0, reopened |-> 0,
                  ret |-> StoreRet("newStore", << >>, 0, 0, "none", 0)]

StAppend(p) ==
    /\ unitLog.phase = "open"
    /\ unitLog.frames < MaxFrames
    /\ LET a == StoreAppend(unit, p)
       IN  /\ unit' = a.seg
           /\ unitLog' = [unitLog EXCEPT
                 !.frames = @ + 1,
                 !.total = @ + lenWidth + Len(p),
                 !.ret = StoreRet("Append", p, a.n, a.pos, "none", unit.size)]
    /\ UNCHANGED <<logVars, clusterVars, stream, unitFiles>>

StRead(pos) ==
    /\ unitLog.phase = "open"
    /\ LET r == StoreRead(unit, unitFiles, pos)
       IN  /\ unit' = r.seg
           /\ unitFiles' = r.f
           /\ unitLog' = [unitLog EXCEPT
                 !.ret = StoreRet("Read", r.p, 0, pos, r.err, unit.size)]
    /\ UNCHANGED <<logVars, clusterVars, stream>>

StReadAt(n, off) ==
    /\ unitLog.phase = "open"
    /\ LET r == StoreReadAt(unit, unitFiles, off, n)
       IN  /\ unit' = r.seg
           /\ unitFiles' = r.f
           /\ unitLog' = [unitLog EXCEPT
                 !.ret = StoreRet("ReadAt", r.p, n, off, r.err, unit.size)]
    /\ UNCHANGED <<logVars, clusterVars, stream>>

StClose ==
    /\ unitLog.phase = "open"
    /\ LET c == StoreClose(unit, unitFiles)
       IN  /\ unit' = [c.seg EXCEPT !.closed = TRUE]
           /\ unitFiles' = c.f
           /\ unitLog' = [unitLog EXCEPT
                 !.phase = "closed",
                 !.ret = StoreRet("Close", << >>, 0, 0, c.err, unit.size)]
    /\ UNCHANGED <<logVars, clusterVars, stream>>

\* newStore(f) over the file of the closed store
StOpen ==
    /\ unitLog.phase = "closed"
    /\ unitLog.reopened < MaxReopen
    /\ unit' = newStore(NoIndex, unitFiles)
    /\ unitLog' = [unitLog EXCEPT
          !.phase = "open", !.reopened = @ + 1,
          !.ret = StoreRet("newStore", << >>, 0, 0, "none", unit.size)]
    /\ UNCHANGED <<logVars, clusterVars, stream, unitFiles>>

StoreNext ==
    \/ \E p \in Values : StAppend(p)
    \/ \E pos \in StorePositions : StRead(pos)
    \/ \E n \in {0, lenWidth}, off \in StorePositions : StReadAt(n, off)
    \/ StClose
    \/ StOpen

StoreSpec == StoreInit /\ [][StoreNext]_vars

(***************************************************************************)
(* grpcServer.ConsumeStream over the Log, with Produce calls and Truncate  *)
(* going on beside it.  stream: << >> before the call; then start, the     *)
(* offset the call was made with, offset = req.Offset, sent = the          *)
(* responses handed to stream.Send so far, waited = a pass found the       *)
(* offset out of range, status = running, done (the handler returned nil)  *)
(* or failed (the handler returned an error), pc = where the handler is in *)
(* the loop (at the select, or in its default case), cancelled = the       *)
(* stream's context is done.                                               *)
(***************************************************************************)
MaxStart == 1

\* the client calls ConsumeStream(&ConsumeRequest{Offset: s})
StreamOpen(s) ==
    /\ phase = "open"
    /\ stream = << >>
    /\ stream' = [start |-> s, offset |-> s, sent |-> << >>, waited |-> FALSE,
                  status |-> "running", pc |-> "select", cancelled |-> FALSE]
    /\ UNCHANGED <<logVars, clusterVars, unitVars>>

\* a pass that advances on an offset out of range as well (a faulty variant:
\* the stream skips the offsets it had to wait for)
StreamAfterSkipping(st, r, sendOk) ==
    IF r.err = "none"
    THEN IF sendOk
         THEN [st EXCEPT !.sent = Append(@, [record |-> r.rec]),
                         !.offset = (@ + 1) % UintMod]
         ELSE [st EXCEPT !.status = "failed"]
    ELSE IF r.err = "ErrOffsetOutOfRange"
    THEN [st EXCEPT !.waited = TRUE, !.offset = (@ + 1) % UintMod]
    ELSE [st EXCEPT !.status = "failed"]

\* the stream after a pass of the loop in which Consume read r and stream.Send,
\* when it was called, succeeded or not (sendOk)
StreamAfter(st, r, sendOk) ==
    IF r.err = "none"
    THEN IF sendOk
         THEN [st EXCEPT !.sent = Append(@, [record |-> r.rec]),
                         !.offset = (@ + 1) % UintMod]
         ELSE [st EXCEPT !.status = "failed"]
    ELSE IF r.err = "ErrOffsetOutOfRange"
    THEN [st EXCEPT !.waited = TRUE]
    ELSE [st EXCEPT !.status = "failed"]

\* the peer cancels the call or goes away: the stream's context is done from
\* now on, wherever the handler is
StreamCancel ==
    /\ stream # << >>
    /\ stream.status = "running"
    /\ ~stream.cancelled
    /\ stream' = [stream EXCEPT !.cancelled = TRUE]
    /\ UNCHANGED <<logVars, clusterVars, unitVars>>

\* a select that takes the default case whatever the context is (a faulty
\* variant: the loop never sees the cancellation)
StreamSelectBlind ==
    /\ stream # << >>
    /\ stream.status = "running"
    /\ stream.pc = "select"
    /\ stream' = [stream EXCEPT !.pc = "default"]
    /\ UNCHANGED <<logVars, clusterVars, unitVars>>

\* the select at the top of the loop with the context not done: the default
\* case is taken
StreamSelect ==
    /\ stream # << >>
    /\ stream.status = "running"
    /\ stream.pc = "select"
    /\ ~stream.cancelled
    /\ stream' = [stream EXCEPT !.pc = "default"]
    /\ UNCHANGED <<logVars, clusterVars, unitVars>>

\* the default case: Consume, the switch on its error, Send, req.Offset++
StreamPass ==
    /\ phase = "open"
    /\ stream # << >>
    /\ stream.status = "running"
    /\ stream.pc = "default"
    /\ LET off == stream.offset
           i   == Find(segments, off)
           r   == LogRead(off)
       IN  \E fault \in Faults(r.unmapped) :
             IF fault THEN Crash("Read", off) /\ UNCHANGED stream
             ELSE /\ ret' = Result("Read", off, r.err, 0)
                  /\ IF r.err = "ErrOffsetOutOfRange" \/ segments[i].closed
                     THEN UNCHANGED <<segments, disk>>
                     ELSE /\ segments' = [segments EXCEPT ![i] = r.seg]
                          /\ disk' = PutFiles(disk, segments[i].baseOffset, r.f)
                  /\ \E sendOk \in BOOLEAN :
                        stream' = [StreamAfter(stream, r, sendOk) EXCEPT !.pc = "select"]
                  /\ UNCHANGED <<cfg, dirExists, active, phase, offs, acked, history>>
    /\ UNCHANGED <<nAppends, clusterVars, unitVars>>

\* the select at the top of the loop with the context done: the handler
\* returns nil
StreamDone ==
    /\ stream # << >>
    /\ stream.status = "running"
    /\ stream.pc = "select"
    /\ stream.cancelled
    /\ stream' = [stream EXCEPT !.status = "done"]
    /\ UNCHANGED <<logVars, clusterVars, unitVars>>

StreamNext ==
    \/ \E v \in Values : LogAppend(NewRecord(v))
    \/ \E k \in 0..MaxStart : LogTruncate(k)
    \/ \E s \in 0..MaxStart : StreamOpen(s)
    \/ StreamCancel
    \/ StreamSelect
    \/ StreamPass
    \/ StreamDone

StreamSpec == Init /\ [][StreamNext]_vars

(***************************************************************************)
(* The gRPC server with its authorizer over a Log of the default Config    *)
(* (the server test's setup).  unitLog: the ACL policy the enforcer was    *)
(* loaded with and the last call: the rpc, the subject of the client's     *)
(* certificate, the status code and the response.                          *)
(***************************************************************************)
Subjects == {"root", "nobody"}
objectWildCard == "*"
produceAction == "produce"
consumeAction == "consume"

\* the ACL tables: rows of subject, object, action
Policies ==
    {{<<"root", objectWildCard, produceAction>>, <<"root", objectWildCard, consumeAction>>},
     {<<"root", objectWildCard, produceAction>>},
     {}}

\* casbin's Enforce: the request is a row of the table
Enforce(policy, sub, obj, act) == <<sub, obj, act>> \in policy

\* an authorizer that lets every subject through (a faulty variant)
AuthorizeAnyone(policy, sub, obj, act) == "none"

\* Authorizer.Authorize: nil, or a status error with codes.PermissionDenied
Authorize(policy, sub, obj, act) ==
    IF ~Enforce(policy, sub, obj, act) THEN "PermissionDenied" ELSE "none"

Call(rpc, sub, code, response) ==
    [rpc |-> rpc, subject |-> sub, code |-> code, response |-> response]

ServerInit ==
    /\ IdleLog /\ NoCluster /\ NoStream
    /\ unit = << >> /\ unitFiles = << >>
    /\ \E policy \in Policies :
          unitLog = [policy |-> policy, ret |-> Call("none", "", "OK", NilRecord)]

\* grpcServer.Produce(ctx, req) by a client whose certificate names sub
ServerProduce(sub, record) ==
    /\ phase = "open"
    /\ nAppends < MaxAppends
    /\ LET a == Authorize(unitLog.policy, sub, objectWildCard, produceAction)
           r == Append_(segments, active, disk, dirExists, cfg, record)
       IN  IF a # "none"
           THEN /\ unitLog' = [unitLog EXCEPT
                                  !.ret = Call("Produce", sub, GRPCCode(a), NilRecord)]
                /\ UNCHANGED logVars
           ELSE /\ nAppends' = nAppends + 1
                /\ \E fault \in Faults(r.unmapped) :
                     IF fault THEN Crash("Append", 0) /\ UNCHANGED unitLog
                     ELSE /\ segments' = r.segments
                          /\ active' = r.active
                          /\ disk' = r.fs
                          /\ ret' = Result("Append", 0, r.err, r.off)
                          /\ offs' = IF r.err = "none" THEN Append(offs, r.off) ELSE offs
                          /\ acked' = IF r.err = "none"
                                      THEN [o \in DOMAIN acked \cup {r.off} |->
                                               IF o = r.off THEN record.value ELSE acked[o]]
                                      ELSE acked
                          /\ unitLog' = [unitLog EXCEPT !.ret =
                                 IF r.err # "none"
                                 THEN Call("Produce", sub, GRPCCode(r.err), NilRecord)
                                 ELSE Call("Produce", sub, "OK", [offset |-> r.off])]
                          /\ UNCHANGED <<cfg, dirExists, phase, history>>
    /\ UNCHANGED <<clusterVars, unit, unitFiles, stream>>

\* grpcServer.Consume(ctx, req) with req.Offset = off by a client whose
\* certificate names sub
ServerConsume(sub, off) ==
    /\ phase = "open"
    /\ LET a == Authorize(unitLog.policy, sub, objectWildCard, consumeAction)
           i == Find(segments, off)
           r == LogRead(off)
       IN  IF a # "none"
           THEN /\ unitLog' = [unitLog EXCEPT
                                  !.ret = Call("Consume", sub, GRPCCode(a), NilRecord)]
                /\ UNCHANGED logVars
           ELSE \E fault \in Faults(r.unmapped) :
                  IF fault THEN Crash("Read", off) /\ UNCHANGED <<unitLog, nAppends>>
                  ELSE /\ ret' = Result("Read", off, r.err, 0)
                       /\ IF r.err = "ErrOffsetOutOfRange" \/ segments[i].closed
                          THEN UNCHANGED <<segments, disk>>
                          ELSE /\ segments' = [segments EXCEPT ![i] = r.seg]
                               /\ disk' = PutFiles(disk, segments[i].baseOffset, r.f)
                       /\ unitLog' = [unitLog EXCEPT !.ret =
                              Call("Consume", sub, Consume(off).code, Consume(off).response)]
                       /\ UNCHANGED <<cfg, dirExists, active, phase, nAppends, offs, acked,
                                      history>>
    /\ UNCHANGED <<clusterVars, unit, unitFiles, stream>>

ServerNext ==
    \/ \E sub \in Subjects, v \in Values : ServerProduce(sub, NewRecord(v))
    \/ \E sub \in Subjects, off \in 0..MaxOffsetArg : ServerConsume(sub, off)

ServerSpec == ServerInit /\ [][ServerNext]_vars

(***************************************************************************)
(* StreamLayer: the connections raft multiplexes on the server's listener. *)
(* unit: the listener's backlog, the connections not yet accepted, oldest  *)
(* first; unitLog: every connection opened so far: who opened it, the      *)
(* bytes its opener wrote in order (sent), those not yet read (unread),    *)
(* whether the opener's end failed, what Dial returned and what Accept     *)
(* made of it.                                                             *)
(***************************************************************************)
MaxConns == 3
RaftRPC == 1
Byte(n) == n % 256

\* what a client that is not a StreamLayer writes first: nothing, a TLS
\* handshake record, an HTTP/2 preface, a zero, a one
ForeignOpenings == {<< >>, <<22, 3>>, <<80, 82>>, <<0>>, <<RaftRPC, 0>>}

\* the first bytes of the TLS handshake tls.Client starts on the connection
ClientHello == <<22, 3>>

Conn(by, sent, broken, dial) ==
    [by |-> by, sent |-> sent, unread |-> sent, broken |-> broken, dial |-> dial,
     accept |-> "pending", first |-> << >>]

NetInit ==
    /\ IdleLog /\ NoCluster /\ NoStream
    /\ unit = << >> /\ unitFiles = << >> /\ unitLog = << >>

\* Accept's test of the byte it read, without the test (a faulty variant:
\* every connection that sent a byte is handed over)
IsRaftAny(b) == TRUE

\* Accept's test of the byte it read
IsRaft(b) == b = <<Byte(RaftRPC)>>

\* StreamLayer.Dial: the connection is made; the write of the RaftRPC byte
\* succeeds (wrote) or fails, and then Dial returns the error and no
\* connection; with a peer TLS config the handshake follows the byte
StreamDial(wrote, withTLS) ==
    /\ Len(unitLog) < MaxConns
    /\ LET sent == IF ~wrote THEN << >>
                   ELSE <<Byte(RaftRPC)>> \o (IF withTLS THEN ClientHello ELSE << >>)
           c    == Conn("Dial", sent, ~wrote, IF wrote THEN "conn" ELSE "error")
       IN  /\ unitLog' = Append(unitLog, c)
           /\ unit' = Append(unit, Len(unitLog) + 1)
    /\ UNCHANGED <<logVars, clusterVars, unitFiles, stream>>

\* another program connects to the listener and writes bytes; broken: it
\* closes the connection after them
ForeignOpen(bytes, broken) ==
    /\ Len(unitLog) < MaxConns
    /\ unitLog' = Append(unitLog, Conn("other", bytes, broken, "conn"))
    /\ unit' = Append(unit, Len(unitLog) + 1)
    /\ UNCHANGED <<logVars, clusterVars, unitFiles, stream>>

\* StreamLayer.Accept on the oldest connection of the backlog, once conn.Read
\* can return: a byte is there or the other end is gone
StreamAccept ==
    /\ Len(unit) > 0
    /\ LET id == Head(unit)
           c  == unitLog[id]
           b  == IF Len(c.unread) > 0 THEN <<Head(c.unread)>> ELSE << >>
       IN  /\ Len(c.unread) > 0 \/ c.broken
           /\ unitLog' = [unitLog EXCEPT ![id] =
                 IF Len(c.unread) = 0
                 THEN [c EXCEPT !.accept = "read error"]
                 ELSE IF ~IsRaft(b)
                 THEN [c EXCEPT !.accept = "not a raft rpc", !.first = b,
                                !.unread = Tail(@)]
                 ELSE [c EXCEPT !.accept = "conn", !.first = b, !.unread = Tail(@)]]
           /\ unit' = Tail(unit)
    /\ UNCHANGED <<logVars, clusterVars, unitFiles, stream>>

NetNext ==
    \/ \E wrote \in BOOLEAN, withTLS \in BOOLEAN : StreamDial(wrote, withTLS)
    \/ \E bytes \in ForeignOpenings, broken \in BOOLEAN : ForeignOpen(bytes, broken)
    \/ StreamAccept

NetSpec == NetInit /\ [][NetNext]_vars

(***************************************************************************)
(* logStore: the journal raft keeps its entries in, a Log with             *)
(* InitialOffset 1 (setupRaft).  The log variables hold the journal;       *)
(* unitLog is raft's side: stored, the entries it has stored and not       *)
(* deleted, by Index, and next, the Index of the entry it stores next.     *)
(* raft stores entries with consecutive indexes from next, deletes a       *)
(* prefix of what it stored (compaction) or a suffix (a conflict), and     *)
(* after a suffix from i goes on storing at i.                             *)
(***************************************************************************)
MaxBatch == 2
JournalIndexCaps == {0, entWidth, 2 * entWidth}
LogTypes == {0, 1}
Terms == {1, 2}

Entry(index, term, type, data) ==
    [Index |-> index, Term |-> term, Type |-> type, Data |-> data]

\* the api.Record StoreLogs builds from a raft.Log (its Index is left out)
RecordOfEntry(e) ==
    [value |-> e.Data, offset |-> 0, term |-> e.Term, type |-> Uint32(e.Type)]

\* the raft.Log GetLog fills from the record Read returned
EntryOfRecord(rec) == Entry(rec.offset, rec.term, Byte(rec.type), rec.value)

\* GetLog(index, out): the error and what out holds after it
GetLog(index) ==
    LET r == LogRead(index)
    IN  IF r.err # "none" THEN [err |-> r.err, out |-> NilRecord]
        ELSE [err |-> "none", out |-> EntryOfRecord(r.rec)]

RECURSIVE StoreLogsLoop(_, _, _, _)

\* after l.Append returned a for records[i]
StoreLogsAppended(L, records, i, unmapped, a) ==
    IF a.err # "none"
    THEN RestoreDone([L EXCEPT !.segments = a.segments, !.active = a.active,
                               !.fs = a.fs], a.err, unmapped \/ a.unmapped)
    ELSE StoreLogsLoop([L EXCEPT !.segments = a.segments, !.active = a.active,
                                 !.fs = a.fs], records, i + 1, unmapped \/ a.unmapped)

\* StoreLogs's loop from records[i]: the first error ends it
StoreLogsLoop(L, records, i, unmapped) ==
    IF i > Len(records) THEN RestoreDone(L, "none", unmapped)
    ELSE StoreLogsAppended(L, records, i, unmapped,
             Append_(L.segments, L.active, L.fs, L.exists, L.c,
                     RecordOfEntry(records[i])))

StoreLogs(L, records) == StoreLogsLoop(L, records, 1, FALSE)

JournalInit ==
    /\ NoCluster /\ NoStream
    /\ unit = << >> /\ unitFiles = << >>
    /\ unitLog = [stored |-> << >>, next |-> 1]
    /\ \E ix \in JournalIndexCaps :
        LET c == WithDefaults(Config(0, ix, 1))
            t == setup(<< >>, << >>, TRUE, c)
        IN  /\ cfg = c
            /\ dirExists = TRUE
            /\ disk = t.fs
            /\ segments = t.segments
            /\ active = Attached
            /\ phase = "open"
            /\ ret = Result("NewLog", 0, t.err, 0)
            /\ nAppends = 0
            /\ offs = << >>
            /\ acked = << >>
            /\ history = "fresh"

\* the batches raft may store next: n entries with the indexes from next
Batches(next) ==
    UNION {{[i \in 1..n |-> Entry(next + i - 1, tm, ty, d)] :
                tm \in Terms, ty \in LogTypes, d \in Values} : n \in 1..MaxBatch}

\* logStore.StoreLogs(records)
JStoreLogs(records) ==
    /\ phase = "open"
    /\ nAppends + Len(records) <= MaxAppends
    /\ nAppends' = nAppends + Len(records)
    /\ LET r == StoreLogs(LogOf(segments, active, disk, dirExists, cfg), records)
       IN  \E fault \in Faults(r.unmapped) :
             IF fault THEN Crash("StoreLogs", 0) /\ UNCHANGED unitLog
             ELSE /\ segments' = r.log.segments
                  /\ active' = r.log.active
                  /\ disk' = r.log.fs
                  /\ ret' = Result("StoreLogs", 0, r.err, 0)
                  /\ unitLog' =
                        IF r.err # "none" THEN unitLog
                        ELSE [stored |->
                                [k \in DOMAIN unitLog.stored
                                        \cup {records[i].Index : i \in DOMAIN records} |->
                                    IF \E i \in DOMAIN records : records[i].Index = k
                                    THEN records[k - unitLog.next + 1]
                                    ELSE unitLog.stored[k]],
                              next |-> unitLog.next + Len(records)]
                  /\ UNCHANGED <<cfg, dirExists, phase, offs, acked, history>>
    /\ UNCHANGED <<clusterVars, unit, unitFiles, stream>>

\* logStore.DeleteRange(min, max): a prefix or a suffix of what raft stored
JDeleteRange(min, max) ==
    /\ phase = "open"
    /\ DOMAIN unitLog.stored # {}
    /\ min <= max
    /\ min \in DOMAIN unitLog.stored /\ max \in DOMAIN unitLog.stored
    /\ \/ \A k \in DOMAIN unitLog.stored : min <= k
       \/ max = unitLog.next - 1
    /\ LET t    == Truncate(segments, disk, max)
           n    == Len(segments)
           last == t.segments[n]
       IN  /\ disk' = t.fs
           /\ ret' = Result("DeleteRange", max, t.err, 0)
           /\ IF t.err # "none"
              THEN /\ segments' = t.segments
                   /\ active' = active
              ELSE /\ segments' = t.kept
                   /\ active' = IF ~active.detached /\ n > 0 /\ last.closed
                                   /\ (Len(t.kept) = 0 \/ t.kept[Len(t.kept)] # last)
                                THEN Detached(last)
                                ELSE active
           /\ unitLog' =
                 IF t.err # "none" THEN unitLog
                 ELSE [stored |-> [k \in DOMAIN unitLog.stored \ (min..max) |->
                                      unitLog.stored[k]],
                       next |-> IF max = unitLog.next - 1 THEN min ELSE unitLog.next]
    /\ history' = "truncated"
    /\ UNCHANGED <<cfg, dirExists, phase, nAppends, offs, acked>>
    /\ UNCHANGED <<clusterVars, unit, unitFiles, stream>>

JournalNext ==
    \/ \E records \in Batches(unitLog.next) : JStoreLogs(records)
    \/ \E min \in 1..MaxAppends, max \in 1..MaxAppends : JDeleteRange(min, max)
    \/ \E index \in 1..MaxAppends : LogReadOp(index)

JournalSpec == JournalInit /\ [][JournalNext]_vars

(***************************************************************************)
(* fsm.Snapshot and snapshot.Persist with the Log in use between them.     *)
(* Snapshot keeps Log.Reader()'s readers: one per segment of the list,     *)
(* each holding that segment's store, nothing read yet.  unitLog: state    *)
(* (none, taken, persisted), held: the segments whose stores the readers   *)
(* hold, at: the bytes Reader() would have given when Snapshot was called, *)
(* persisted: what Persist's io.Copy wrote to the sink and its error.      *)
(* Persist is taken as one step, the appends and truncations come between  *)
(* Snapshot and Persist.                                                   *)
(***************************************************************************)
NoSnapshot == [state |-> "none", held |-> << >>, at |-> << >>,
               persisted |-> [err |-> "none", data |-> << >>]]

SnapInit ==
    /\ NoCluster /\ NoStream
    /\ unit = << >> /\ unitFiles = << >>
    /\ unitLog = NoSnapshot
    /\ \E k \in Configs :
        LET c == WithDefaults(Config(k[1], k[2], k[3]))
            t == setup(<< >>, << >>, TRUE, c)
        IN  /\ cfg = c
            /\ dirExists = TRUE
            /\ disk = t.fs
            /\ segments = t.segments
            /\ active = Attached
            /\ phase = "open"
            /\ ret = Result("NewLog", 0, t.err, 0)
            /\ nAppends = 0
            /\ offs = << >>
            /\ acked = << >>
            /\ history = "fresh"

\* fsm.Snapshot(): f.log.Reader() builds the readers, no byte is read
FsmSnapshot ==
    /\ phase = "open"
    /\ unitLog.state = "none"
    /\ unitLog' = [unitLog EXCEPT !.state = "taken", !.held = segments,
                                  !.at = Reader(segments, disk).data]
    /\ UNCHANGED <<logVars, clusterVars, unit, unitFiles, stream>>

\* the segment a reader's store belongs to, as it is now: in the list, or
\* removed by Truncate (closed, its buffer flushed, its file deleted)
HeldNow(segs, h) ==
    IF \E i \in 1..Len(segs) : segs[i].baseOffset = h.baseOffset
    THEN segs[CHOOSE i \in 1..Len(segs) : segs[i].baseOffset = h.baseOffset]
    ELSE [h EXCEPT !.closed = TRUE, !.buf = << >>]

\* l.segments after the readers flushed the stores of the segments in read
PutSegments(segs, read) ==
    [i \in 1..Len(segs) |->
        IF \E j \in 1..Len(read) : read[j].baseOffset = segs[i].baseOffset
        THEN read[CHOOSE j \in 1..Len(read) : read[j].baseOffset = segs[i].baseOffset]
        ELSE segs[i]]

\* snapshot.Persist(sink): io.Copy drains the readers in order, each with
\* store.ReadAt from 0 to the end of its file as the file is now; the first
\* error ends the copy
SnapPersist ==
    /\ phase = "open"
    /\ unitLog.state = "taken"
    /\ LET now == [i \in 1..Len(unitLog.held) |-> HeldNow(segments, unitLog.held[i])]
           r   == Reader(now, disk)
       IN  /\ segments' = PutSegments(segments, r.segments)
           /\ disk' = r.fs
           /\ unitLog' = [unitLog EXCEPT !.state = "persisted",
                                         !.persisted = [err |-> r.err, data |-> r.data]]
           /\ ret' = Result("Persist", 0, r.err, 0)
    /\ UNCHANGED <<cfg, dirExists, active, phase, nAppends, offs, acked, history>>
    /\ UNCHANGED <<clusterVars, unit, unitFiles, stream>>

SnapNext ==
    \/ \E v \in Values : LogAppend(NewRecord(v))
    \/ \E k \in 0..MaxOffsetArg : LogTruncate(k)
    \/ FsmSnapshot
    \/ SnapPersist

SnapSpec == SnapInit /\ [][SnapNext]_vars

(***************************************************************************)
(* index.Close step by step.  unit and unitFiles: the index and its file;  *)
(* unitLog: pc, the step of Close that runs next (0 outside a call),       *)
(* mapped and fileOpen, the state of the mapping and of the file handle,   *)
(* ran, the steps the call in progress (or the last one) has run with      *)
(* their outcome, err, what the last call returned, calls, how many Close  *)
(* calls were made.  Every step can fail; a step on a released mapping or  *)
(* a closed handle does fail.                                              *)
(***************************************************************************)
MaxCloses == 2

\* Close with the truncation ahead of the unmap (a faulty variant)
CloseStepsTruncateFirst == <<"Sync", "FileSync", "Truncate", "Unmap", "FileClose">>

\* the statements of index.Close in their order
CloseSteps == <<"Sync", "FileSync", "Unmap", "Truncate", "FileClose">>

CloseInit ==
    /\ IdleLog /\ NoCluster /\ NoStream
    /\ \E m \in IndexCaps :
         LET ix == newIndex(NoIndex, EmptyFiles, Config(0, m, 0))
         IN  /\ unit = ix.seg
             /\ unitFiles = ix.f
             /\ unitLog = [pc |-> 0, mapped |-> TRUE, fileOpen |-> TRUE, ran |-> << >>,
                           err |-> "none", calls |-> 0]

\* index.Write between the calls
CloseWrite(off, pos) ==
    /\ unitLog.pc = 0 /\ unitLog.calls = 0
    /\ unit.isize < MaxWrites * entWidth
    /\ LET w == IndexWrite(unit, unitFiles, off, pos)
       IN  unit' = w.seg /\ unitFiles' = w.f
    /\ UNCHANGED <<logVars, clusterVars, stream, unitLog>>

\* a caller enters index.Close
CloseCall ==
    /\ unitLog.pc = 0
    /\ unitLog.calls < MaxCloses
    /\ unitLog' = [unitLog EXCEPT !.pc = 1, !.ran = << >>, !.calls = @ + 1]
    /\ UNCHANGED <<logVars, clusterVars, stream, unit, unitFiles>>

\* can the step succeed at all
StepCan(step, u) ==
    IF step \in {"Sync", "Unmap"} THEN u.mapped ELSE u.fileOpen

\* what the step does when it succeeds
StepDone(step, u) ==
    CASE step = "Unmap" -> [u EXCEPT !.mapped = FALSE]
      [] step = "FileClose" -> [u EXCEPT !.fileOpen = FALSE]
      [] OTHER -> u

\* the next statement of Close runs: on an error Close returns it, after the
\* last statement it returns nil
CloseStep(ok) ==
    /\ unitLog.pc > 0
    /\ LET step == CloseSteps[unitLog.pc]
           good == ok /\ StepCan(step, unitLog)
           u    == [unitLog EXCEPT !.ran = Append(@, [step |-> step, ok |-> good])]
       IN  /\ unitLog' =
                IF ~good THEN [u EXCEPT !.pc = 0, !.err = step]
                ELSE [StepDone(step, u) EXCEPT
                         !.pc = IF unitLog.pc = Len(CloseSteps) THEN 0 ELSE @ + 1,
                         !.err = IF unitLog.pc = Len(CloseSteps) THEN "none" ELSE @]
           /\ unitFiles' = IF good /\ step = "Truncate"
                           THEN TruncateIndexFile(unitFiles, unit.isize)
                           ELSE unitFiles
           /\ unit' = IF good /\ step = "Unmap" THEN [unit EXCEPT !.closed = TRUE] ELSE unit
    /\ UNCHANGED <<logVars, clusterVars, stream>>

CloseNext ==
    \/ \E off \in WriteOffs, pos \in WritePoss : CloseWrite(off, pos)
    \/ CloseCall
    \/ \E ok \in BOOLEAN : CloseStep(ok)

CloseSpec == CloseInit /\ [][CloseNext]_vars

(***************************************************************************)
(* agent.New and Agent.Shutdown.  unitLog: new, how far New has come       *)
(* (log, server, done, failed); log, server, replicator, membership:       *)
(* whether the field is set; serve, the goroutine setupServer starts       *)
(* (none, serving, failed: Serve returned an error, stopped); shutdown,    *)
(* the flag; closes, how often close(a.shutdowns) ran; ran, the component  *)
(* steps Shutdown has run, each with whether its component was set;        *)
(* rets, what each Shutdown call returned, in order; panicked: a call      *)
(* went through a nil component.  Shutdown holds shutdownLock from its     *)
(* first statement to its return, so the calls are steps one after         *)
(* another; the fields New sets are read without a lock.                   *)
(***************************************************************************)
MaxShutdowns == 3
ShutdownFailures == {"none", "Leave", "LogClose"}
Callers == {"owner", "other", "server"}
ShutdownOrder == <<"Leave", "Close", "GracefulStop", "LogClose">>

AgentNew ==
    [new |-> "start", log |-> FALSE, server |-> FALSE, replicator |-> FALSE,
     membership |-> FALSE, serve |-> "none", shutdown |-> FALSE, closes |-> 0,
     lock |-> "free", at |-> 0, held |-> <<FALSE, FALSE, FALSE, FALSE>>,
     calls |-> 0, ran |-> << >>, rets |-> << >>, panicked |-> FALSE]

ShutdownInit ==
    /\ IdleLog /\ NoCluster /\ NoStream
    /\ unitFiles = << >>
    /\ unit = [c \in Callers |-> "idle"]
    /\ unitLog = AgentNew

\* setupLog, setupServer, setupMembership: New's next setup function; ok: it
\* returns no error.  setupServer starts the goroutine that runs Serve;
\* setupMembership sets a.replicator before discovery.New can fail
SetupStep(ok) ==
    /\ ~unitLog.panicked
    /\ unitLog.new \in {"start", "log", "server"}
    /\ unitLog' =
          CASE unitLog.new = "start" ->
                  IF ok THEN [unitLog EXCEPT !.new = "log", !.log = TRUE]
                  ELSE [unitLog EXCEPT !.new = "failed"]
            [] unitLog.new = "log" ->
                  IF ok THEN [unitLog EXCEPT !.new = "server", !.server = TRUE,
                                             !.serve = "serving"]
                  ELSE [unitLog EXCEPT !.new = "failed"]
            [] unitLog.new = "server" ->
                  IF ok THEN [unitLog EXCEPT !.new = "done", !.replicator = TRUE,
                                             !.membership = TRUE]
                  ELSE [unitLog EXCEPT !.new = "failed", !.replicator = TRUE]
    /\ UNCHANGED <<logVars, clusterVars, stream, unit, unitFiles>>

\* a.server.Serve(ln) returns an error in the goroutine, which then calls
\* Shutdown
ServeFails ==
    /\ ~unitLog.panicked
    /\ unitLog.serve = "serving"
    /\ unitLog.calls < MaxShutdowns
    /\ unitLog' = [unitLog EXCEPT !.serve = "failed", !.calls = @ + 1]
    /\ unit' = [unit EXCEPT !["server"] = "waiting"]
    /\ UNCHANGED <<logVars, clusterVars, stream, unitFiles>>

\* a holder of the agent New returned calls Shutdown
ShutdownCall(c) ==
    /\ ~unitLog.panicked
    /\ c # "server" /\ unit[c] = "idle"
    /\ unitLog.new = "done"
    /\ unitLog.calls < MaxShutdowns
    /\ unitLog' = [unitLog EXCEPT !.calls = @ + 1]
    /\ unit' = [unit EXCEPT ![c] = "waiting"]
    /\ UNCHANGED <<logVars, clusterVars, stream, unitFiles>>

\* Shutdown from shutdownLock.Lock() to the slice of its four functions: a
\* call that finds a.shutdown set returns nil; the first sets it, closes the
\* channel, and takes the method values of a.membership, a.replicator and
\* a.log as they are now (the closure reads a.server when it runs)
Shutdown(a, c) ==
    IF a.shutdown THEN [a EXCEPT !.rets = Append(@, "nil")]
    ELSE [a EXCEPT !.shutdown = TRUE, !.closes = @ + 1, !.lock = c, !.at = 1,
                   !.held = <<a.membership, a.replicator, FALSE, a.log>>]

ShutdownEnter(c) ==
    /\ ~unitLog.panicked
    /\ unit[c] = "waiting"
    /\ unitLog.lock = "free"
    /\ unitLog' = Shutdown(unitLog, c)
    /\ unit' = [unit EXCEPT ![c] = IF unitLog.shutdown THEN "idle" ELSE "in"]
    /\ UNCHANGED <<logVars, clusterVars, stream, unitFiles>>

\* one pass of Shutdown's loop: the function at a.at runs on its component;
\* a nil component is a nil dereference, an error ends the call with it, the
\* last function ends it with nil
ShutdownStep(a, failure) ==
    LET i   == a.at
        set == IF i = 3 THEN a.server ELSE a.held[i]
        b   == [a EXCEPT !.ran = Append(@, [step |-> ShutdownOrder[i], set |-> set])]
    IN  IF ~set THEN [b EXCEPT !.panicked = TRUE]
        ELSE IF failure = ShutdownOrder[i]
             THEN [b EXCEPT !.rets = Append(@, failure), !.lock = "free", !.at = 0]
        ELSE IF i = 4
             THEN [b EXCEPT !.rets = Append(@, "nil"), !.lock = "free", !.at = 0]
        ELSE [b EXCEPT !.at = i + 1,
                       !.serve = IF i = 3 /\ @ = "serving" THEN "stopped" ELSE @]

ShutdownRun(c, failure) ==
    /\ ~unitLog.panicked
    /\ unit[c] = "in" /\ unitLog.lock = c
    /\ unitLog' = ShutdownStep(unitLog, failure)
    /\ unit' = [unit EXCEPT ![c] = IF unitLog'.lock = c THEN "in" ELSE "idle"]
    /\ UNCHANGED <<logVars, clusterVars, stream, unitFiles>>

ShutdownNext ==
    \/ \E ok \in BOOLEAN : SetupStep(ok)
    \/ ServeFails
    \/ \E c \in Callers : ShutdownCall(c)
    \/ \E c \in Callers : ShutdownEnter(c)
    \/ \E c \in Callers, failure \in ShutdownFailures : ShutdownRun(c, failure)

ShutdownSpec == ShutdownInit /\ [][ShutdownNext]_vars

(***************************************************************************)
(* The Replicator.  unitLog: made, whether init has made the servers map   *)
(* and the close channel; servers, the map from a joined name to its       *)
(* leave channel; chans, for every leave channel made, how often it was    *)
(* closed; closed, the flag; closes, how often close(r.close) ran; last,   *)
(* the latest of Join, Leave, Close (seq flips with every call).  unit:    *)
(* one entry per replicate goroutine, numbered like its leave channel:     *)
(* loop, where replicate is (dial, select, done); recv, where its          *)
(* receiving goroutine is (none, recv: in stream.Recv, send: in            *)
(* records <- , done); late, whether it produced a record to the local     *)
(* server after its leave channel or the close channel had been closed.    *)
(* The remote server always has a next record to deliver.  Join, Leave     *)
(* and Close hold r.mu from the first statement to the return.             *)
(***************************************************************************)
MaxJoins == 2
Names == {"n1", "n2"}

NewReplicator ==
    [made |-> FALSE, servers |-> << >>, chans |-> << >>, closed |-> FALSE,
     closes |-> 0, last |-> [op |-> "none", name |-> "none", seq |-> 0]]

NewRoutine(name) ==
    [name |-> name, loop |-> "dial", recv |-> "none", late |-> FALSE]

ReplicatorInit ==
    /\ IdleLog /\ NoCluster /\ NoStream
    /\ unitFiles = << >>
    /\ unit = << >>
    /\ unitLog = NewReplicator

\* Replicator.init()
ReplicatorMade(r) == [r EXCEPT !.made = TRUE]

Called(r, op, name) ==
    [r EXCEPT !.last = [op |-> op, name |-> name, seq |-> 1 - r.last.seq]]

\* Replicator.Join(name, addr) on the fields; the goroutine is started by the
\* action
Join(r, name) ==
    LET q == ReplicatorMade(r)
    IN  IF q.closed \/ name \in DOMAIN q.servers THEN q
        ELSE [q EXCEPT !.servers = [n \in DOMAIN q.servers \cup {name} |->
                                       IF n = name THEN Len(q.chans) + 1
                                       ELSE q.servers[n]],
                       !.chans = Append(@, 0)]

\* Leave that closes the channel and keeps the entry (a faulty variant)
LeaveKeepsEntry(r, name) ==
    LET q == ReplicatorMade(r)
    IN  IF name \notin DOMAIN q.servers THEN q
        ELSE [q EXCEPT !.chans[q.servers[name]] = @ + 1]

\* Replicator.Leave(name)
Leave(r, name) ==
    LET q == ReplicatorMade(r)
    IN  IF name \notin DOMAIN q.servers THEN q
        ELSE [q EXCEPT !.chans[q.servers[name]] = @ + 1,
                       !.servers = [n \in DOMAIN q.servers \ {name} |->
                                       q.servers[n]]]

\* Replicator.Close()
ReplicatorClose(r) ==
    LET q == ReplicatorMade(r)
    IN  IF q.closed THEN q
        ELSE [q EXCEPT !.closed = TRUE, !.closes = @ + 1]

ReplicatorJoin(name) ==
    /\ Len(unitLog.chans) < MaxJoins
    /\ unitLog' = Called(Join(unitLog, name), "Join", name)
    /\ unit' = IF Len(unitLog'.chans) > Len(unitLog.chans)
               THEN Append(unit, NewRoutine(name)) ELSE unit
    /\ UNCHANGED <<logVars, clusterVars, stream, unitFiles>>

ReplicatorLeave(name) ==
    /\ unitLog' = Called(Leave(unitLog, name), "Leave", name)
    /\ UNCHANGED <<logVars, clusterVars, stream, unit, unitFiles>>

ReplicatorCloseCall ==
    /\ unitLog' = Called(ReplicatorClose(unitLog), "Close", "none")
    /\ UNCHANGED <<logVars, clusterVars, stream, unit, unitFiles>>

\* the leave channel of goroutine g or the close channel is closed
Signalled(r, g) == r.chans[g] > 0 \/ r.closes > 0

\* replicate up to its loop: ok, NewClient and ConsumeStream succeed and the
\* receiving goroutine is started; otherwise replicate returns
RoutineDial(g, ok) ==
    /\ g \in 1..Len(unit) /\ unit[g].loop = "dial"
    /\ unit' = [unit EXCEPT ![g] = IF ok THEN [@ EXCEPT !.loop = "select", !.recv = "recv"]
                                   ELSE [@ EXCEPT !.loop = "done"]]
    /\ UNCHANGED <<logVars, clusterVars, stream, unitLog, unitFiles>>

\* the receiving goroutine's stream.Recv(): with ok it has a record and goes
\* on to send it on records; an error (always, once replicate has returned
\* and its deferred cc.Close() has run) ends the goroutine
RoutineRecv(g, ok) ==
    /\ g \in 1..Len(unit) /\ unit[g].recv = "recv"
    /\ ok => unit[g].loop # "done"
    /\ unit' = [unit EXCEPT ![g] = IF ok THEN [@ EXCEPT !.recv = "send"]
                                   ELSE [@ EXCEPT !.recv = "done"]]
    /\ UNCHANGED <<logVars, clusterVars, stream, unitLog, unitFiles>>

\* one pass of replicate's loop: select takes one of the cases that are
\* ready; the records case hands the record to LocalServer.Produce
RoutineSelect(g, case, ok) ==
    /\ g \in 1..Len(unit) /\ unit[g].loop = "select"
    /\ \/ case = "close" /\ unitLog.closes > 0
       \/ case = "leave" /\ unitLog.chans[g] > 0
       \/ case = "records" /\ unit[g].recv = "send"
    /\ unit' = [unit EXCEPT ![g] =
                  IF case # "records" THEN [@ EXCEPT !.loop = "done"]
                  ELSE IF ~ok THEN [@ EXCEPT !.loop = "done", !.recv = "recv"]
                  ELSE [@ EXCEPT !.recv = "recv",
                                 !.late = @ \/ Signalled(unitLog, g)]]
    /\ UNCHANGED <<logVars, clusterVars, stream, unitLog, unitFiles>>

ReplicatorNext ==
    \/ \E name \in Names : ReplicatorJoin(name)
    \/ \E name \in Names : ReplicatorLeave(name)
    \/ ReplicatorCloseCall
    \/ \E g \in 1..MaxJoins, ok \in BOOLEAN : RoutineDial(g, ok)
    \/ \E g \in 1..MaxJoins, ok \in BOOLEAN : RoutineRecv(g, ok)
    \/ \E g \in 1..MaxJoins, case \in {"close", "leave", "records"}, ok \in BOOLEAN :
          RoutineSelect(g, case, ok)

ReplicatorSpec == ReplicatorInit /\ [][ReplicatorNext]_vars

(***************************************************************************)
(* Threads on one Log.  unitLog: log, the Log (LogOf); lock, the thread    *)
(* that holds l.mu (0: free); calls and resets, the Appends and the        *)
(* Remove/Reset calls made; done, the Appends that returned no error, in   *)
(* the order they returned.  unit[t]: thread t's call: pc (idle; lock, in  *)
(* l.mu.Lock(); in, past it; index, in segment.Append after store.Append;  *)
(* removeall, in Remove after Close returned; setup, in Reset after        *)
(* Remove returned), op, arg, the offset (cur) and position (pos)          *)
(* segment.Append holds, and ret, what the Read it made last returned.     *)
(* Append and Read defer l.mu.Unlock(); Remove and Reset take l.mu only    *)
(* inside Close.                                                           *)
(***************************************************************************)
MaxCalls == 2
MaxResets == 1
Threads == 1..2

ThreadIdle ==
    [pc |-> "idle", op |-> "none", arg |-> 0, cur |-> 0, pos |-> 0,
     ret |-> [off |-> 0, err |-> "unread", value |-> << >>]]

ThreadInit ==
    /\ IdleLog /\ NoCluster /\ NoStream
    /\ unitFiles = << >>
    /\ unit = [t \in Threads |-> ThreadIdle]
    /\ \E k \in Configs :
          unitLog = [log |-> FreshLog(WithDefaults(Config(k[1], k[2], k[3]))),
                     lock |-> 0, calls |-> 0, resets |-> 0, done |-> << >>]

\* l.mu.Lock() that never waits (a faulty variant: no mutual exclusion)
CanLockAlways(holder) == TRUE

\* l.mu.Lock() returns when no thread holds l.mu
CanLock(holder) == holder = 0

\* l.mu.Unlock() by thread t
Unlock(holder, t) == IF holder = t THEN 0 ELSE holder

\* segment.Append on the active segment up to store.Append: the offset it
\* read (cur), the position store.Append returned (pos)
AppendStore(L, record) ==
    LET a   == ActiveOf(L.segments, L.active)
        cur == a.nextOffset
        st  == StoreAppend(a, Marshal([record EXCEPT !.offset = cur]))
    IN  [log |-> [L EXCEPT !.segments = WithActive(L.segments, L.active, st.seg),
                           !.active = IF L.active.detached THEN Detached(st.seg)
                                      ELSE L.active],
         cur |-> cur, pos |-> st.pos]

\* segment.Append from index.Write on, and the rest of Log.Append
AppendIndex(L, cur, pos) ==
    LET a  == ActiveOf(L.segments, L.active)
        iw == IndexWrite(a, FilesOf(L.fs, a), USub(a.nextOffset, a.baseOffset), pos)
        r  == IF iw.err # "none"
              THEN [seg |-> iw.seg, f |-> iw.f, off |-> 0, err |-> iw.err,
                    unmapped |-> FALSE]
              ELSE [seg |-> [iw.seg EXCEPT !.nextOffset = (a.nextOffset + 1) % UintMod],
                    f |-> iw.f, off |-> cur, err |-> "none", unmapped |-> iw.unmapped]
        o  == AppendOn(L.segments, L.active, L.fs, L.exists, L.c, a, r)
    IN  [log |-> [L EXCEPT !.segments = o.segments, !.active = o.active, !.fs = o.fs],
         off |-> o.off, err |-> o.err]

\* thread t calls Log.Append(&Record{Value: v})
ThreadAppend(t, v) ==
    /\ unit[t].pc = "idle"
    /\ unitLog.calls < MaxCalls
    /\ unit' = [unit EXCEPT ![t] = [ThreadIdle EXCEPT !.pc = "lock", !.op = "Append",
                                                     !.arg = v]]
    /\ unitLog' = [unitLog EXCEPT !.calls = @ + 1]
    /\ UNCHANGED <<logVars, clusterVars, stream, unitFiles>>

\* thread t calls Log.Read(off)
ThreadRead(t, off) ==
    /\ unit[t].pc = "idle"
    /\ unit' = [unit EXCEPT ![t] = [ThreadIdle EXCEPT !.pc = "lock", !.op = "Read",
                                                     !.arg = off]]
    /\ UNCHANGED <<logVars, clusterVars, stream, unitLog, unitFiles>>

\* thread t calls Log.Remove() or Log.Reset()
ThreadReset(t, op) ==
    /\ unit[t].pc = "idle"
    /\ unitLog.resets < MaxResets
    /\ unit' = [unit EXCEPT ![t] = [ThreadIdle EXCEPT !.pc = "lock", !.op = op]]
    /\ unitLog' = [unitLog EXCEPT !.resets = @ + 1]
    /\ UNCHANGED <<logVars, clusterVars, stream, unitFiles>>

ThreadLock(t) ==
    /\ unit[t].pc = "lock"
    /\ CanLock(unitLog.lock)
    /\ unitLog' = [unitLog EXCEPT !.lock = t]
    /\ unit' = [unit EXCEPT ![t].pc = "in"]
    /\ UNCHANGED <<logVars, clusterVars, stream, unitFiles>>

ThreadAppendStore(t) ==
    /\ unit[t].pc = "in" /\ unit[t].op = "Append"
    /\ LET a == AppendStore(unitLog.log, NewRecord(unit[t].arg))
       IN  /\ unitLog' = [unitLog EXCEPT !.log = a.log]
           /\ unit' = [unit EXCEPT ![t].pc = "index", ![t].cur = a.cur,
                                   ![t].pos = a.pos]
    /\ UNCHANGED <<logVars, clusterVars, stream, unitFiles>>

ThreadAppendIndex(t) ==
    /\ unit[t].pc = "index"
    /\ LET a == AppendIndex(unitLog.log, unit[t].cur, unit[t].pos)
       IN  unitLog' = [unitLog EXCEPT
                          !.log = a.log,
                          !.lock = Unlock(@, t),
                          !.done = IF a.err # "none" THEN @
                                   ELSE Append(@, [off |-> a.off, value |-> unit[t].arg,
                                                   by |-> t])]
    /\ unit' = [unit EXCEPT ![t].pc = "idle", ![t].cur = 0, ![t].pos = 0]
    /\ UNCHANGED <<logVars, clusterVars, stream, unitFiles>>

ThreadReadBody(t) ==
    /\ unit[t].pc = "in" /\ unit[t].op = "Read"
    /\ LET r == ReadLog(unitLog.log, unit[t].arg)
       IN  /\ unitLog' = [unitLog EXCEPT !.log = r.log, !.lock = Unlock(@, t)]
           /\ unit' = [unit EXCEPT
                         ![t].pc = "idle",
                         ![t].ret = [off |-> unit[t].arg, err |-> r.err,
                                     value |-> IF r.err = "none" THEN r.rec.value
                                               ELSE << >>]]
    /\ UNCHANGED <<logVars, clusterVars, stream, unitFiles>>

\* Log.Close() inside Remove: the segments are closed under l.mu, which the
\* return releases
ThreadClose(t) ==
    /\ unit[t].pc = "in" /\ unit[t].op \in {"Remove", "Reset"}
    /\ LET c == Close(unitLog.log.segments, unitLog.log.fs)
       IN  /\ unitLog' = [unitLog EXCEPT !.log.segments = c.segments,
                                         !.log.fs = c.fs,
                                         !.lock = Unlock(@, t)]
           /\ unit' = [unit EXCEPT ![t].pc = IF c.err # "none" THEN "idle"
                                             ELSE "removeall"]
    /\ UNCHANGED <<logVars, clusterVars, stream, unitFiles>>

\* os.RemoveAll(l.Dir) in Remove
ThreadRemoveAll(t) ==
    /\ unit[t].pc = "removeall"
    /\ unitLog' = [unitLog EXCEPT !.log.fs = << >>, !.log.exists = FALSE]
    /\ unit' = [unit EXCEPT ![t].pc = IF unit[t].op = "Reset" THEN "setup" ELSE "idle"]
    /\ UNCHANGED <<logVars, clusterVars, stream, unitFiles>>

\* l.setup() in Reset
ThreadSetup(t) ==
    /\ unit[t].pc = "setup"
    /\ LET L == unitLog.log
           r == setup(L.segments, L.fs, L.exists, L.c)
       IN  unitLog' = [unitLog EXCEPT !.log.segments = r.segments, !.log.fs = r.fs]
    /\ unit' = [unit EXCEPT ![t].pc = "idle"]
    /\ UNCHANGED <<logVars, clusterVars, stream, unitFiles>>

AppendersNext ==
    \/ \E t \in Threads, v \in Values : ThreadAppend(t, v)
    \/ \E t \in Threads, off \in 0..(MaxCalls - 1) : ThreadRead(t, off)
    \/ \E t \in Threads : ThreadLock(t)
    \/ \E t \in Threads : ThreadAppendStore(t)
    \/ \E t \in Threads : ThreadAppendIndex(t)
    \/ \E t \in Threads : ThreadReadBody(t)

AppendersSpec == ThreadInit /\ [][AppendersNext]_vars

ResetNext ==
    \/ AppendersNext
    \/ \E t \in Threads, op \in {"Remove", "Reset"} : ThreadReset(t, op)
    \/ \E t \in Threads : ThreadClose(t)
    \/ \E t \in Threads : ThreadRemoveAll(t)
    \/ \E t \in Threads : ThreadSetup(t)

ResetSpec == ThreadInit /\ [][ResetNext]_vars

(***************************************************************************)
(* Properties.                                                             *)
(***************************************************************************)
\* C1: on a Log opened on an empty directory with InitialOffset = 0, with no
\* Truncate, Reset or Remove, the i-th successful Append (i = 0, 1, ...)
\* returns offset i, whatever the caps are and however many segments the
\* appends rolled over.
AppendOffsetsContiguous ==
    (cfg.InitialOffset = 0 /\ clean) => \A i \in 1..Len(offs) : offs[i] = i - 1

\* C1 happens: MaxAppends appends succeeded and each rolled to a new segment
AppendOffsetsContiguousWitness ==
    /\ cfg.InitialOffset = 0 /\ clean
    /\ Len(offs) = MaxAppends
    /\ Len(segments) > MaxAppends

\* C2: every offset O an Append returned without error, with no
\* Truncate(k >= O), Reset or Remove after it, is read back by Read(O) as a
\* record with the appended value and offset O.
AckedReadable ==
    phase = "open" =>
        \A o \in DOMAIN acked :
            LET r == LogRead(o)
            IN  r.err = "none" /\ r.rec.value = acked[o] /\ r.rec.offset = o

\* C3: on a Log that has a segment, Read(o) with o above HighestOffset or below
\* LowestOffset returns ErrOffsetOutOfRange carrying o and no record, Consume
\* answers it with NotFound and no response, and a Read that returned the error
\* left the segments, the files and the active segment as they were.
ReadOutOfRange ==
    /\ [](phase = "open" /\ Len(segments) > 0 =>
            \A o \in Probes :
                (o > HighestOffset \/ o < LowestOffset) =>
                    /\ LogRead(o).err = "ErrOffsetOutOfRange"
                    /\ LogRead(o).at = o
                    /\ LogRead(o).rec = NilRecord
                    /\ Consume(o) = [code |-> "NotFound", response |-> NilRecord])
    /\ [][(ret'.op = "Read" /\ ret'.err = "ErrOffsetOutOfRange") =>
            UNCHANGED <<cfg, dirExists, disk, segments, active>>]_vars

\* C3 happens: a Read below LowestOffset returned the error on a log that
\* holds a record, and there is an offset above it
ReadOutOfRangeWitness ==
    /\ phase = "open" /\ Len(segments) > 0 /\ ~LogEmpty
    /\ ret.op = "Read" /\ ret.err = "ErrOffsetOutOfRange"
    /\ ret.arg < LowestOffset
    /\ \E o \in 0..MaxOffsetArg : o > HighestOffset /\ o > LowestOffset

\* C4: after successful appends only, Close, then NewLog on the same directory
\* with the same config: LowestOffset and HighestOffset are what they were,
\* every appended record is read back at its offset, and the next Append
\* returns the old HighestOffset + 1.
ReopenPreserves ==
    [][(phase = "closed" /\ phase' = "open" /\ ret.op = "Close" /\ ret.err = "none"
        /\ clean /\ AllAppended /\ nAppends > 0) =>
            /\ LowestOffset' = LowestOffset
            /\ HighestOffset' = HighestOffset
            /\ \A o \in DOMAIN acked :
                   LET r == ReadIn(segments', disk', o)
                   IN  r.err = "none" /\ r.rec.value = acked[o] /\ r.rec.offset = o
            /\ LET a == Append_(segments', active', disk', dirExists', cfg', EmptyRecord)
               IN  a.err = "none" /\ a.off = HighestOffset + 1]_vars

NoIndexFullOnAppend ==
    (clean /\ cfg.MaxIndexBytes >= entWidth /\ ret.op = "Append") => ret.err # "EOF"

\* C7: a record with offset > k that Read returned before Truncate(k) is
\* returned by Read with the same content after it.
TruncateKeepsHigher ==
    [][(phase = "open" /\ ret'.op = "Truncate") =>
            \A o \in Probes :
                (o > ret'.arg /\ LogRead(o).err = "none") =>
                    /\ ReadIn(segments', disk', o).err = "none"
                    /\ ReadIn(segments', disk', o).rec = LogRead(o).rec]_vars

\* C7 happens: a Truncate removed a segment that held a record and a record
\* above its argument is still there
TruncateKeepsHigherWitness ==
    /\ phase = "open" /\ ret.op = "Truncate" /\ ret.err = "none"
    /\ Len(segments) > 0 /\ LowestOffset > cfg.InitialOffset
    /\ \E o \in Probes : o > ret.arg /\ LogRead(o).err = "none"

OffsetQueriesAnswer ==
    (phase = "open" /\ clean /\ Len(segments) > 0) =>
        /\ LowestOffset = segments[1].baseOffset
        /\ HighestOffset = IF LogEmpty THEN 0
                           ELSE segments[Len(segments)].nextOffset - 1

\* C10: draining Reader() gives the frames of the records of the log, one per
\* offset from LowestOffset to HighestOffset in order, and no other byte
\* (stated for a Log no Truncate, Reset or Remove has touched).
ReaderYieldsTheRecords ==
    (phase = "open" /\ clean /\ Len(segments) > 0) =>
        /\ Reader(segments, disk).err = "none"
        /\ Reader(segments, disk).data =
               FramesOf(segments, disk, LowestOffset, HighestOffset)

\* C11: the snapshot b of any state of the user Log, restored into a fresh Log
\* by fsm.Restore, gives a Log whose snapshot is b again.
SnapshotRestoreSnapshot ==
    (phase = "open" /\ Reader(segments, disk).err = "none") =>
        LET b == Reader(segments, disk).data
            r == Restore(FreshLog(cfg), b)
        IN  /\ r.err = "none"
            /\ Persist(r.log).err = "none"
            /\ Persist(r.log).data = b

\* C12: after fsm.Restore(b) returned without error the offsets Read answers
\* are those of the records of b, each with its record of b (none when b holds
\* no record), and LowestOffset and HighestOffset are the first and the last.
RestoredIsSnapshot ==
    (phase = "open" /\ ret.op = "Restore" /\ ret.err = "none") =>
        LET recs == Records(ret.arg)
        IN  /\ \A o \in Probes :
                   LogRead(o).err = "none" <=> \E i \in 1..Len(recs) : recs[i].offset = o
            /\ \A i \in 1..Len(recs) : LogRead(recs[i].offset).rec = recs[i]
            /\ Len(recs) > 0 =>
                   /\ LowestOffset = recs[1].offset
                   /\ HighestOffset = recs[Len(recs)].offset

UnknownTypeFails ==
    \A i \in Replicas : \A n \in 1..nodes[i].applied :
        raftLog[n][1] # AppendRequestType =>
            /\ nodes[i].results[n].kind = "error"
            /\ ~nodes[i].results[n].touched
            /\ i = Leader => acks[n].err # "none"

\* C14: a record whose Produce agent 0 answered with offset O is what Consume(O)
\* returns on agent 0 from then on, and what Consume(O) returns on a follower
\* once replication has brought the followers that far.  (The Logs of the
\* cluster are only appended to: what a follower holds at O stays, so when every
\* follower holds a record at O and none holds the answered one, no Consume(O)
\* on a follower returns it any more.)
ProducedIsReplicated ==
    \A O \in DOMAIN acks :
        /\ ReadLog(nodes[0].log, O).err = "none"
        /\ ReadLog(nodes[0].log, O).rec.value = acks[O]
        /\ (\A f \in Followers : Held(f) > O) =>
               \E f \in Followers :
                   /\ ReadLog(nodes[f].log, O).err = "none"
                   /\ ReadLog(nodes[f].log, O).rec.value = acks[O]

\* C16: an index opened again after Close has the size of the pairs written
\* with success, 12 bytes each; Read(n) returns the n-th of them, Read(-1) the
\* last one, and with no pair written Read returns io.EOF.
IndexReopens ==
    (unitLog.phase = "open" /\ unitLog.reopened > 0 /\ ~unitLog.stopped) =>
        LET w == unitLog.written
        IN  /\ unit.isize = entWidth * Len(w)
            /\ \A n \in 0..(Len(w) - 1) :
                   /\ IndexRead(unit, unitFiles, n).err = "none"
                   /\ IndexRead(unit, unitFiles, n).out = w[n + 1][1]
                   /\ IndexRead(unit, unitFiles, n).pos = w[n + 1][2]
            /\ Len(w) > 0 =>
                   /\ IndexRead(unit, unitFiles, -1).err = "none"
                   /\ IndexRead(unit, unitFiles, -1).out = w[Len(w)][1]
                   /\ IndexRead(unit, unitFiles, -1).pos = w[Len(w)][2]
            /\ Len(w) = 0 =>
                   \A in \in -1..MaxWrites : IndexRead(unit, unitFiles, in).err = "EOF"

\* two different pairs were written, the index was closed and opened again
IndexReopensWitness ==
    /\ unitLog.phase = "open" /\ unitLog.reopened > 0 /\ ~unitLog.stopped
    /\ Len(unitLog.written) >= 2
    /\ unitLog.written[1] # unitLog.written[2]
    /\ unitLog.ret.op = "Read" /\ unitLog.ret.arg = -1 /\ unitLog.ret.err = "none"
    /\ unitLog.ret.pos = 300

\* C17: a segment opened again after its process stopped with entries written
\* and the index never closed has 12 bytes of index for every entry written and
\* base offset + entries written as its next offset.
StoppedIndexRecovers ==
    (unitLog.ret.op = "newSegment" /\ unitLog.ret.after = "stopped"
        /\ unitLog.reopened = 1 /\ unitLog.entries > 0) =>
        /\ unit.isize = entWidth * unitLog.entries
        /\ unit.nextOffset = unit.baseOffset + unitLog.entries

\* C18: on a fresh segment of base offset B whose index holds N entries the
\* k-th Append returns B + k - 1 for k <= N, and its record is read back at that
\* offset; every later Append returns io.EOF, and after one the next offset is
\* B + N and IsMaxed is true.
SegmentFillsToCap ==
    unitLog.reopened = 0 =>
        LET N == unitLog.c.MaxIndexBytes \div entWidth
            B == unit.baseOffset
            t == unitLog.tries
        IN  /\ \A k \in 1..Len(t) :
                   IF k <= N THEN t[k].err = "none" /\ t[k].off = B + k - 1
                   ELSE t[k].err = "EOF"
            /\ unitLog.phase = "open" =>
                   \A k \in 1..Min(Len(t), N) :
                       /\ SegmentRead(unit, unitFiles, B + k - 1).err = "none"
                       /\ SegmentRead(unit, unitFiles, B + k - 1).rec
                              = [NewRecord(t[k].value) EXCEPT !.offset = B + k - 1]
            /\ Len(t) > N => unit.nextOffset = B + N /\ IsMaxed(unit, unitLog.c)

\* three appends on a segment of base 16 and three entries got 16, 17 and 18,
\* the fourth io.EOF
SegmentFillsToCapWitness ==
    /\ unitLog.reopened = 0 /\ unitLog.phase = "open"
    /\ unit.baseOffset = 16 /\ unitLog.c.MaxIndexBytes = 3 * entWidth
    /\ Len(unitLog.tries) = 4
    /\ unitLog.tries[3].off = 18 /\ unitLog.tries[3].err = "none"
    /\ unitLog.tries[4].err = "EOF"

\* C19: a store's size is the length of its file plus the length of its buffer,
\* which is the total length of the frames appended; Append(p) returns
\* n = 8 + len(p) and pos = the size before it, and pos + n is the size after
\* it; Read and ReadAt leave the size as it was.
StoreSizeIsEnd ==
    /\ unit.size = Len(unitFiles.store) + Len(unit.buf)
    /\ unit.size = unitLog.total
    /\ unitLog.ret.op = "Append" =>
          /\ unitLog.ret.n = lenWidth + Len(unitLog.ret.p)
          /\ unitLog.ret.pos = unitLog.ret.before
          /\ unitLog.ret.pos + unitLog.ret.n = unit.size
    /\ unitLog.ret.op \in {"Read", "ReadAt"} => unit.size = unitLog.ret.before

\* a third frame was appended behind two that a Read or ReadAt had flushed to
\* the file
StoreSizeIsEndWitness ==
    /\ unitLog.frames = 3
    /\ unitLog.ret.op = "Append" /\ unitLog.ret.p = <<104, 105>>
    /\ unitLog.ret.pos > lenWidth
    /\ Len(unitFiles.store) = unitLog.ret.pos
    /\ Len(unit.buf) = unitLog.ret.n

\* C20: the k-th response of a ConsumeStream started at offset s carries the
\* record of offset s + k - 1 and the stream asks for s + (responses sent)
\* next; a response is sent only in a step that starts where Read of the
\* stream's offset succeeds, it carries the record read and moves the offset by
\* one; a step that starts with the offset out of range sends nothing and leaves
\* the offset.
StreamInOrder ==
    /\ [](stream # << >> =>
            /\ Len(stream.sent) = USub(stream.offset, stream.start)
            /\ \A k \in 1..Len(stream.sent) :
                   stream.sent[k].record.offset = stream.start + k - 1)
    /\ [][stream # << >> =>
            /\ stream'.sent # stream.sent =>
                  /\ LogRead(stream.offset).err = "none"
                  /\ stream'.sent
                        = Append(stream.sent, [record |-> LogRead(stream.offset).rec])
                  /\ stream'.offset = stream.offset + 1
            /\ stream'.offset # stream.offset => stream'.sent # stream.sent
            /\ LogRead(stream.offset).err = "ErrOffsetOutOfRange" =>
                  /\ stream'.sent = stream.sent
                  /\ stream'.offset = stream.offset]_vars

\* a stream started at offset 1 found it out of range, then sent the records of
\* the offsets 1 and 2
StreamInOrderWitness ==
    /\ stream # << >>
    /\ stream.start = 1 /\ stream.waited
    /\ Len(stream.sent) = 2
    /\ stream.sent[1].record.value # stream.sent[2].record.value

\* C24: on an open Log the segment list is never empty and the active segment
\* is its last element (Truncate has not taken it out of the list), so that
\* LowestOffset and HighestOffset answer and Append writes into the list.
ActiveSegmentIsLast ==
    phase = "open" =>
        /\ Len(segments) > 0
        /\ ~active.detached
        /\ LowestOffset # Panic /\ HighestOffset # Panic

\* C26: a Reset returns without error and leaves one open, empty segment of
\* base InitialOffset whose two files exist and are the only files; the Append
\* after it returns InitialOffset.
ResetLeavesOneSegment ==
    (phase = "open" /\ ret.op = "Reset") =>
        /\ ret.err = "none"
        /\ Len(segments) = 1
        /\ ~active.detached
        /\ segments[1].baseOffset = cfg.InitialOffset
        /\ segments[1].nextOffset = cfg.InitialOffset
        /\ ~segments[1].closed
        /\ dirExists /\ DOMAIN disk = {cfg.InitialOffset}
        /\ \A v \in Values :
              LET a == Append_(segments, active, disk, dirExists, cfg, NewRecord(v))
              IN  a.err = "none" /\ a.off = cfg.InitialOffset

\* C25: in every state the segments of the list are in increasing order of
\* base offset and contiguous (each base offset is the next offset of the
\* segment before it), and no step changes the next offset of a segment that
\* is not the last of the list.
SegmentsContiguous ==
    /\ [](\A i \in 1..(Len(segments) - 1) :
            /\ segments[i].baseOffset < segments[i + 1].baseOffset
            /\ segments[i + 1].baseOffset = segments[i].nextOffset)
    /\ [][\A i \in 1..(Len(segments) - 1) :
            \A j \in 1..Len(segments') :
                segments'[j].baseOffset = segments[i].baseOffset =>
                    segments'[j].nextOffset = segments[i].nextOffset]_vars

\* C25 happens: a list of three segments, the first two full, after a reopen
SegmentsContiguousWitness ==
    /\ phase = "open" /\ ret.op = "NewLog" /\ Len(offs) > 0
    /\ Len(segments) = 3
    /\ segments[2].nextOffset > segments[2].baseOffset

MaxedSegmentRefuses ==
    [][(unitLog.phase = "open" /\ unitLog'.ret.op = "Append"
            /\ Len(unitLog'.tries) = Len(unitLog.tries) + 1
            /\ IsMaxed(unit, unitLog.c))
        => unitLog'.tries[Len(unitLog'.tries)].err # "none"]_vars

\* C21: a Produce or Consume by a subject the ACL table has no row for (with
\* the wildcard object and the rpc's action) returns PermissionDenied and no
\* response, and leaves the commit log as it was: its segments, its files and
\* HighestOffset.
UnauthorizedIsDenied ==
    [][\A rpc \in {"Produce", "Consume"} :
          (/\ unitLog'.ret.rpc = rpc
           /\ ~Enforce(unitLog.policy, unitLog'.ret.subject, objectWildCard,
                       IF rpc = "Produce" THEN produceAction ELSE consumeAction))
          => /\ unitLog'.ret.code = "PermissionDenied"
             /\ unitLog'.ret.response = NilRecord
             /\ UNCHANGED <<segments, active, disk, dirExists, offs, phase>>
             /\ HighestOffset' = HighestOffset]_vars

\* C21 happens: a rejected subject was answered after root had produced a record
UnauthorizedIsDeniedWitness ==
    /\ unitLog.ret.subject = "nobody" /\ unitLog.ret.rpc = "Consume"
    /\ unitLog.ret.code = "PermissionDenied"
    /\ Len(offs) > 0

\* C22: Accept hands a connection to its caller only if the first byte its
\* opener sent, the one Accept read, is 0x01, and fails with "not a raft rpc"
\* when it read another byte; the first byte on every connection Dial returned
\* is 0x01, and Accept hands every such connection over.
OnlyRaftAccepted ==
    \A id \in DOMAIN unitLog :
        LET c == unitLog[id]
        IN  /\ c.accept = "conn" => c.first = <<1>> /\ c.sent[1] = 1
            /\ (c.first # << >> /\ c.first # <<1>>) => c.accept = "not a raft rpc"
            /\ (c.by = "Dial" /\ c.dial = "conn") =>
                   /\ Len(c.sent) > 0 /\ c.sent[1] = 1
                   /\ c.accept \in {"pending", "conn"}

\* C22 happens: Accept turned a foreign connection down and handed over a
\* dialled one that came after it
OnlyRaftAcceptedWitness ==
    \E i, j \in DOMAIN unitLog :
        /\ i < j
        /\ unitLog[i].by = "other" /\ unitLog[i].accept = "not a raft rpc"
        /\ unitLog[j].by = "Dial" /\ unitLog[j].accept = "conn"

\* C23: for every entry raft has stored in the journal and not deleted,
\* GetLog(k) returns without error an entry with Index k and the Data, Term
\* and Type of the entry stored with Index k.
StoredIsGot ==
    phase = "open" =>
        \A k \in DOMAIN unitLog.stored :
            /\ GetLog(k).err = "none"
            /\ GetLog(k).out = unitLog.stored[k]

\* C29, stated so that a finite run refutes it: a running ConsumeStream can
\* always emit the next record it owes: whenever Read returns a record for an
\* offset at or above the stream's offset, Read returns one for the stream's
\* offset (otherwise every pass finds the offset out of range, the offset never
\* moves, and the records above it are never emitted).
StreamCanEmit ==
    (phase = "open" /\ stream # << >> /\ stream.status = "running") =>
        \A o \in Probes :
            (o >= stream.offset /\ LogRead(o).err = "none")
                => LogRead(stream.offset).err = "none"

\* C30, as stated: a ConsumeStream whose context was cancelled returns nil.
StreamCancelledReturnsNil ==
    (stream # << >> /\ stream.cancelled /\ stream.status # "running")
        => stream.status = "done"

\* C30, amended: with the context cancelled, the handler's step at the select
\* returns nil and emits nothing, whatever Read would return for the offset;
\* its step in an iteration that had passed the select before the cancellation
\* ends that iteration: back at the select, or returned with an error; the
\* handler returns nil only on a cancelled context, and after it returned the
\* stream emits nothing.
StreamCancelEnds ==
    /\ [](stream # << >> /\ stream.status = "done" => stream.cancelled)
    /\ [][(stream # << >> /\ stream' # stream) =>
            /\ stream.status = "running"
            /\ stream.cancelled =>
                  IF stream.pc = "select"
                  THEN stream'.status = "done" /\ stream'.sent = stream.sent
                  ELSE stream'.status = "failed" \/ stream'.pc = "select"]_vars

\* C30 happens: a stream that was retrying on an offset out of range, with
\* nothing sent, returned nil
StreamCancelEndsWitness ==
    /\ phase = "open" /\ stream # << >>
    /\ stream.status = "done" /\ stream.waited /\ stream.sent = << >>
    /\ LogRead(stream.offset).err = "ErrOffsetOutOfRange"

\* C39: Segment.Read(off) returns an error for every offset outside
\* [base_offset, next_offset): the one just below the base, the ones whose
\* relative value is over 32 bits, the highest uint64; a record it returns
\* carries the offset asked for.
SegmentProbes ==
    (0..(MaxTries + 1)) \cup {15, 16 + MaxTries, Uint32Mod, 16 + Uint32Mod, MaxUint}

SegmentReadInRange ==
    unitLog.phase = "open" =>
        \A off \in SegmentProbes :
            LET r == SegmentRead(unit, unitFiles, off)
            IN  /\ (off < unit.baseOffset \/ off >= unit.nextOffset) => r.err # "none"
                /\ r.err = "none" => r.rec.offset = off

\* C31: what Persist wrote is the byte stream of the Log as it was when
\* Snapshot was called, and Persist returned no error, whatever was appended
\* or truncated in between.
SnapshotIsPointInTime ==
    unitLog.state = "persisted" =>
        /\ unitLog.persisted.err = "none"
        /\ unitLog.persisted.data = unitLog.at

\* C38: in every call of index.Close the steps run are Sync, file Sync, unmap,
\* Truncate(size), file Close in this order, each only after the ones before
\* it succeeded; the file's length changes only while the mapping is released
\* and the handle open, and then to size; the handle is closed only after the
\* truncation.
CloseInOrder ==
    /\ [](LET ran == unitLog.ran
              ord == <<"Sync", "FileSync", "Unmap", "Truncate", "FileClose">>
          IN  /\ Len(ran) <= 5
              /\ \A i \in 1..Len(ran) :
                    /\ ran[i].step = ord[i]
                    /\ i < Len(ran) => ran[i].ok)
    /\ [][/\ unitFiles'.ilen # unitFiles.ilen =>
                /\ ~unitLog.mapped /\ unitLog.fileOpen
                /\ unitFiles'.ilen = unit.isize
          /\ unitLog'.fileOpen # unitLog.fileOpen =>
                /\ ~unitLog'.fileOpen
                /\ unitFiles.ilen = unit.isize /\ ~unitLog.mapped]_vars

\* C38 happens: a Close ran all its steps on an index of two entries and cut
\* the file from its padded length to 24 bytes
CloseInOrderWitness ==
    /\ unitLog.pc = 0 /\ unitLog.calls = 1 /\ unitLog.err = "none"
    /\ Len(unitLog.ran) = 5
    /\ unit.isize = 2 * entWidth /\ unitFiles.ilen = 2 * entWidth
    /\ unit.mlen > unit.isize

\* C37: however often and from wherever Shutdown is called, the steps it has
\* run are a beginning of membership.Leave, replicator.Close, GracefulStop,
\* log.Close, each run once and on a component that was set up, the channel
\* is closed once, and every call after the first returned nil.
ShutdownOnce ==
    /\ unitLog.closes <= 1
    /\ Len(unitLog.ran) <= 4
    /\ \A i \in 1..Len(unitLog.ran) :
          unitLog.ran[i].step = ShutdownOrder[i] /\ unitLog.ran[i].set
    /\ ~unitLog.panicked
    /\ \A i \in 2..Len(unitLog.rets) : unitLog.rets[i] = "nil"

\* the call that took the replicator from r to q changed nothing
ReplicatorKeeps(r, q) ==
    /\ q.servers = r.servers /\ q.chans = r.chans
    /\ q.closed = r.closed /\ q.closes = r.closes
    /\ unit' = unit

\* C34: whatever the order of Join, Leave and Close, no leave channel and not
\* the close channel is closed twice; a Join starts one goroutine, and only
\* for a name that is not joined while the replicator is not closed; a Leave
\* of a name that is not joined and a Close of a closed replicator change
\* neither the servers, the channels, the flag nor the goroutines.
ReplicatorGuarded ==
    /\ [](/\ unitLog.closes <= 1
          /\ \A g \in 1..Len(unitLog.chans) : unitLog.chans[g] <= 1)
    /\ [][/\ Len(unit') > Len(unit) =>
                /\ unitLog'.last.op = "Join" /\ ~unitLog.closed
                /\ unitLog'.last.name \notin DOMAIN unitLog.servers
                /\ unit' = Append(unit, NewRoutine(unitLog'.last.name))
          /\ unitLog'.last.seq # unitLog.last.seq =>
                /\ unitLog'.last.op = "Leave"
                      /\ unitLog'.last.name \notin DOMAIN unitLog.servers
                      => ReplicatorKeeps(unitLog, unitLog')
                /\ unitLog'.last.op = "Close" /\ unitLog.closed
                      => ReplicatorKeeps(unitLog, unitLog')
                /\ unitLog'.last.op = "Join"
                      /\ (unitLog.closed \/ unitLog'.last.name \in DOMAIN unitLog.servers)
                      => ReplicatorKeeps(unitLog, unitLog')]_vars

ReplicatorGuardedWitness ==
    /\ unitLog.closed /\ unitLog.last.op = "Close" /\ unitLog.closes = 1
    /\ Len(unitLog.chans) = 2
    /\ unitLog.chans[1] = 1 /\ unitLog.chans[2] = 1
    /\ unit[1].name = unit[2].name
    /\ unitLog.servers = << >>

\* C35: once the leave channel of a replicate goroutine or the close channel
\* is closed, the goroutine produces no further record to the local server,
\* and its receiving goroutine is never left in its send on records after
\* replicate has returned, where nothing can end it.
ReplicatorStops ==
    \A g \in 1..Len(unit) :
        /\ ~unit[g].late
        /\ ~(unit[g].loop = "done" /\ unit[g].recv = "send")

\* C36: no agent's Log holds more records than the clients have produced:
\* every produced record is in each Log at most once, so the Logs stop
\* growing when the clients stop.
ProducedOnceHeldOnce ==
    \A i \in Agents : Held(i) <= Cardinality(DOMAIN acks)

\* C33: the Appends of the threads that returned no error returned distinct
\* offsets that fill a range without a gap; whenever no Append is under way
\* a Read of each of these offsets returns the value that call appended, and
\* a Read that returned a record returned the value of the Append that was
\* answered with its offset.
AppendsSerialised ==
    LET d == unitLog.done
    IN  /\ \A i, j \in 1..Len(d) : i # j => d[i].off # d[j].off
        /\ Len(d) > 0 =>
              {d[i].off : i \in 1..Len(d)} = d[1].off..(d[1].off + Len(d) - 1)
        /\ (\A t \in Threads : unit[t].pc \notin {"in", "index"}) =>
              \A i \in 1..Len(d) :
                 /\ ReadLog(unitLog.log, d[i].off).err = "none"
                 /\ ReadLog(unitLog.log, d[i].off).rec.value = d[i].value
        /\ \A t \in Threads :
              unit[t].ret.err = "none" =>
                 \E i \in 1..Len(d) :
                    d[i].off = unit[t].ret.off /\ d[i].value = unit[t].ret.value

AppendsSerialisedWitness ==
    /\ Len(unitLog.done) = MaxCalls
    /\ unitLog.done[1].by # unitLog.done[2].by
    /\ unitLog.done[1].value # unitLog.done[2].value
    /\ Len(unitLog.log.segments) > 1
    /\ \E t \in Threads : unit[t].ret.err = "none" /\ unit[t].ret.off = 1
    /\ \E t \in Threads : unit[t].pc = "lock"

\* C32: while a thread is in Remove or Reset past the close of the segments,
\* no other thread is past l.mu.Lock() in Read or Append.
ResetExcludes ==
    \A t, u \in Threads :
        unit[t].pc \in {"removeall", "setup"} => unit[u].pc \notin {"in", "index"}

====
